---- MODULE Spec2Model ----
(***************************************************************************)
(* A model of AlgokitComposer (src/types/composer.ts): the pending intent  *)
(* list, the typed builders and the common build step, the method-call     *)
(* argument resolver, the atomic group assembler (build / rebuild) and the *)
(* execution coordinator (execute).                                        *)
(*                                                                         *)
(* Each public operation is one action.  The calls are awaited one after   *)
(* the other by a single caller, so an operation runs from its call to its *)
(* return (or throw) in one step; the values its collaborators return      *)
(* (network parameters, signer registry, compiler) are read from the       *)
(* environment variables, which the environment actions change between     *)
(* the calls.                                                              *)
(***************************************************************************)
EXTENDS Integers, Sequences, FiniteSets, TLC

VARIABLES
    txns,                \* this.txns: the pending intents
    atc,                 \* this.atc: [status, transactions, methodCalls]
    txnMethodMap,        \* this.txnMethodMap: set of <<txn id, method>>
    compilationResults,  \* this._compilationResults: the compiled source texts
    defaultValidityWindow, \* this.defaultValidityWindow
    network,             \* what getSuggestedParams() returns now:
                         \* [fee, firstRound, genesisID, fault]
    registry,            \* what getSigner(address) returns now
    last,                \* the outcome of the call that has just returned, if any
    compiles,            \* the compileTeal calls made directly by the callers:
                         \* [pc, text, result, invoked, fired, read]
    builds               \* the build() calls that run while another is
                         \* suspended: [pc, overlapped, err, group]

vars == <<txns, atc, txnMethodMap, compilationResults, defaultValidityWindow,
          network, registry, last, compiles, builds>>

----------------------------------------------------------------------------
(* Program constants *)

MAX_TRANSACTION_GROUP_SIZE == 16
ALGORAND_MIN_TX_FEE == 1000
DEFAULT_VALIDITY_WINDOW == 10

(* Bounds of the model *)

\* intents of any kind may be added while the list is shorter than this
MaxVaried == 2
\* plain payments may be added while the list is shorter than this
MaxTxns == 17
\* the network's first-valid round advances at most this far
MaxRound == 1

\* undefined, for an optional string (address, note, method, ...)
None == "None"

\* undefined, for an optional number (fee, round, window, id)
Undef == -1

\* JavaScript truthiness of an optional number: undefined and 0 are falsy
Truthy(x) == x # Undef /\ x # 0

Max(a, b) == IF a >= b THEN a ELSE b

----------------------------------------------------------------------------
(* Values *)

\* no signer given: CommonTransactionParams.signer is undefined
NoSigner == [account |-> FALSE, fn |-> None]
\* a TransactionSigner function
SignerFn(s) == [account |-> FALSE, fn |-> s]
\* a TransactionSignerAccount {addr, signer}
SignerAccount(s) == [account |-> TRUE, fn |-> s]

\* no program given
NoProgram == [kind |-> "none", src |-> None]
\* a program given as compiled bytes
Bytes(b) == [kind |-> "bytes", src |-> b]
\* a program given as TEAL source text
Teal(t) == [kind |-> "teal", src |-> t]

\* no error: the call returned
NoError == [kind |-> "none", fee |-> 0, maxFee |-> 0]
Err(k) == [kind |-> k, fee |-> 0, maxFee |-> 0]

\* what getSuggestedParams() resolves to
SuggestedParams(fee, firstRound) == [fee |-> fee, firstRound |-> firstRound]

\* A transaction skeleton as the algosdk make*Txn constructors return it:
\* the rounds come from the suggested parameters, every optional field is unset.
Transaction(type, from, suggestedParams) ==
    [type |-> type, from |-> from, to |-> None, amount |-> 0,
     assetIndex |-> Undef, closeRemainderTo |-> None, manager |-> None,
     appIndex |-> Undef, onComplete |-> None,
     approvalProgram |-> NoProgram, clearProgram |-> NoProgram,
     numLocalInts |-> Undef,
     method |-> None, nArgs |-> 0,
     firstRound |-> suggestedParams.firstRound,
     lastRound |-> suggestedParams.firstRound + 1000,
     fee |-> 0, flatFee |-> FALSE,
     lease |-> None, rekeyTo |-> None, note |-> None, group |-> None]

\* An intent: CommonTransactionParams and the fields of the kinds, all unset.
Params(type, sender) ==
    [type |-> type, sender |-> sender, signer |-> NoSigner,
     rekeyTo |-> None, note |-> None, lease |-> None,
     staticFee |-> Undef, extraFee |-> Undef, maxFee |-> Undef,
     validityWindow |-> Undef, firstValidRound |-> Undef, lastValidRound |-> Undef,
     receiver |-> None, amount |-> 0, closeRemainderTo |-> None,
     assetId |-> Undef, creator |-> None, closeAssetTo |-> None, manager |-> None,
     appId |-> Undef, onComplete |-> None,
     approvalProgram |-> NoProgram, clearProgram |-> NoProgram,
     schema |-> Undef,
     method |-> None, args |-> <<>>,
     atc |-> [transactions |-> <<>>, methodCalls |-> {}]]

\* a transaction paired with its signer (algosdk.TransactionWithSigner)
TransactionWithSigner(txn, signer) == [txn |-> txn, signer |-> signer]

\* Transaction.txID(): the hash of the transaction's content, its group included;
\* two transactions have the same id exactly when their contents are equal.
TxID(txn) == txn

\* Map.set(key, value) on a map kept as a set of <<key, value>> pairs
MapSet(map, key, value) == {p \in map : p[1] # key} \cup {<<key, value>>}

\* Map.get(key), None standing for undefined
MapGet(map, key) ==
    IF \E p \in map : p[1] = key THEN (CHOOSE p \in map : p[1] = key)[2] ELSE None

----------------------------------------------------------------------------
(* 4.1 Common build step *)

\* encodeLease / encodeTransactionNote: the value is attached as given
EncodeLease(lease) == lease
EncodeTransactionNote(note) == note

\* Transaction.estimateSize(): the encoded size in bytes, which grows with the
\* kind of the transaction and with its optional fields.
EstimateSize(txn) ==
    (CASE txn.type = "pay" -> 250
       [] txn.type = "axfer" -> 260
       [] txn.type = "appl" -> 300
       [] OTHER -> 270)
    + (IF txn.note # None THEN 10 ELSE 0)
    + (IF txn.lease # None THEN 40 ELSE 0)
    + (IF txn.rekeyTo # None THEN 40 ELSE 0)

\* the fee of a transaction with no static fee
ComputedFee(params, txn, suggestedParams) ==
    LET perByte == EstimateSize(txn) * suggestedParams.fee
    IN  (IF perByte # 0 THEN perByte ELSE ALGORAND_MIN_TX_FEE)
        + (IF params.extraFee # Undef THEN params.extraFee ELSE 0)

\* the test with truthiness in place of !== undefined
FeeConflictWhenTruthy(params) == Truthy(params.staticFee) /\ Truthy(params.extraFee)

\* staticFee !== undefined && extraFee !== undefined
FeeConflict(params) == params.staticFee # Undef /\ params.extraFee # Undef

\* the test with >= in place of >
ReachesMaxFee(params, fee) == params.maxFee # Undef /\ fee >= params.maxFee

\* maxFee !== undefined && txn.fee > maxFee
ExceedsMaxFee(params, fee) == params.maxFee # Undef /\ fee > params.maxFee

\* the last-valid round of a transaction whose first-valid round is firstRound
LastRound(params, firstRound) ==
    IF Truthy(params.lastValidRound) THEN params.lastValidRound
    ELSE firstRound + (IF params.validityWindow # Undef THEN params.validityWindow
                       ELSE defaultValidityWindow)

\* commonTxnBuildStep: [err, txn]
CommonTxnBuildStep(params, txn, suggestedParams) ==
    LET t1 == [txn EXCEPT
                 !.lease = IF params.lease # None THEN EncodeLease(params.lease) ELSE @,
                 !.rekeyTo = IF params.rekeyTo # None THEN params.rekeyTo ELSE @,
                 !.note = IF params.note # None THEN EncodeTransactionNote(params.note) ELSE @]
        first == IF Truthy(params.firstValidRound) THEN params.firstValidRound
                 ELSE t1.firstRound
        t2 == [t1 EXCEPT !.firstRound = first, !.lastRound = LastRound(params, first)]
        fee == IF params.staticFee # Undef THEN params.staticFee
               ELSE ComputedFee(params, t2, suggestedParams)
        t3 == [t2 EXCEPT !.fee = fee, !.flatFee = TRUE]
    IN  IF FeeConflict(params) THEN [err |-> Err("FeeConflict"), txn |-> t2]
        ELSE IF ExceedsMaxFee(params, fee)
             THEN [err |-> [kind |-> "MaxFee", fee |-> fee, maxFee |-> params.maxFee],
                   txn |-> t3]
             ELSE [err |-> NoError, txn |-> t3]

----------------------------------------------------------------------------
(* 4.2 Typed builders: [err, txn] *)

BuildPayment(params, suggestedParams) ==
    CommonTxnBuildStep(params,
        [Transaction("pay", params.sender, suggestedParams) EXCEPT
            !.to = params.receiver, !.amount = params.amount,
            !.closeRemainderTo = params.closeRemainderTo],
        suggestedParams)

BuildAssetCreate(params, suggestedParams) ==
    CommonTxnBuildStep(params,
        [Transaction("acfg", params.sender, suggestedParams) EXCEPT
            !.amount = params.amount, !.manager = params.manager],
        suggestedParams)

BuildAssetConfig(params, suggestedParams) ==
    CommonTxnBuildStep(params,
        [Transaction("acfg", params.sender, suggestedParams) EXCEPT
            !.assetIndex = params.assetId, !.manager = params.manager],
        suggestedParams)

BuildAssetDestroy(params, suggestedParams) ==
    CommonTxnBuildStep(params,
        [Transaction("acfg", params.sender, suggestedParams) EXCEPT
            !.assetIndex = params.assetId],
        suggestedParams)

BuildAssetFreeze(params, suggestedParams) ==
    CommonTxnBuildStep(params,
        [Transaction("afrz", params.sender, suggestedParams) EXCEPT
            !.assetIndex = params.assetId, !.to = params.receiver],
        suggestedParams)

BuildAssetTransfer(params, suggestedParams) ==
    CommonTxnBuildStep(params,
        [Transaction("axfer", params.sender, suggestedParams) EXCEPT
            !.to = params.receiver, !.assetIndex = params.assetId,
            !.amount = params.amount, !.closeRemainderTo = params.closeAssetTo],
        suggestedParams)

BuildKeyReg(params, suggestedParams) ==
    CommonTxnBuildStep(params, Transaction("keyreg", params.sender, suggestedParams),
                       suggestedParams)

----------------------------------------------------------------------------
(* The state a build() call changes while it resolves the intents:          *)
(*   mmap     this.txnMethodMap                                             *)
(*   comp     this._compilationResults (the source texts compiled)          *)
(*   nSigner  calls of getSigner made by this call                          *)
(*   nCompile calls of algod.compile made by this call                      *)

BuildState(mmap, comp) == [mmap |-> mmap, comp |-> comp, nSigner |-> 0, nCompile |-> 0]

\* the compiled bytes of a source text
Compiled(tealCode) == [kind |-> "compiled", src |-> tealCode]

\* compileTeal: [err, program, st]
CompileTeal(tealCode, st) ==
    IF tealCode \in st.comp
    THEN [err |-> NoError, program |-> Compiled(tealCode), st |-> st]
    ELSE IF network.fault = "compile"
    THEN [err |-> Err("Compile"), program |-> NoProgram,
          st |-> [st EXCEPT !.nCompile = @ + 1]]
    ELSE [err |-> NoError, program |-> Compiled(tealCode),
          st |-> [st EXCEPT !.comp = @ \cup {tealCode}, !.nCompile = @ + 1]]

\* getCompilationResult
GetCompilationResult(tealCode) ==
    IF tealCode \in compilationResults THEN Compiled(tealCode) ELSE NoProgram

\* const approvalProgram = 'approvalProgram' in params ? ... : undefined:
\* [err, program, st]
ApprovalProgram(params, st) ==
    IF params.approvalProgram.kind = "none"
    THEN [err |-> NoError, program |-> NoProgram, st |-> st]
    ELSE IF params.approvalProgram.kind = "teal"
         THEN CompileTeal(params.approvalProgram.src, st)
         ELSE [err |-> NoError, program |-> params.approvalProgram, st |-> st]

\* const clearProgram = 'clearProgram' in params ? ... : undefined, which reads
\* params.approvalProgram where one expects params.clearProgram: [err, program, st]
ClearProgram(params, st) ==
    IF params.clearProgram.kind = "none"
    THEN [err |-> NoError, program |-> NoProgram, st |-> st]
    ELSE IF params.approvalProgram.kind = "teal"
         THEN CompileTeal(params.approvalProgram.src, st)
         ELSE [err |-> NoError, program |-> params.approvalProgram, st |-> st]

\* both programs, the approval program first: [err, approval, clear, st]
WithClearProgram(a, c) ==
    [err |-> c.err, approval |-> a.program, clear |-> c.program, st |-> c.st]

WithApprovalProgram(params, a) ==
    IF a.err # NoError
    THEN [err |-> a.err, approval |-> NoProgram, clear |-> NoProgram, st |-> a.st]
    ELSE WithClearProgram(a, ClearProgram(params, a.st))

\* the approvalProgram and clearProgram handed to algosdk: [err, approval, clear, st]
ResolvePrograms(params, st) == WithApprovalProgram(params, ApprovalProgram(params, st))

\* 'onComplete' in params ? params.onComplete : UpdateApplicationOC
OnComplete(params) == IF params.onComplete # None THEN params.onComplete ELSE "UpdateApplication"

\* Number('appId' in params ? params.appId : 0n)
AppId(params) == IF params.appId # Undef THEN params.appId ELSE 0

\* algosdk.makeApplicationCallTxnFromObject({ ...sdkParams, appIndex: appId }):
\* the schema counts are those of the intent, undefined when it gives none
ApplicationCallTxn(params, suggestedParams, p) ==
    [Transaction("appl", params.sender, suggestedParams) EXCEPT
        !.appIndex = AppId(params), !.onComplete = OnComplete(params),
        !.approvalProgram = p.approval, !.clearProgram = p.clear,
        !.numLocalInts = params.schema]

\* algosdk.makeApplicationCreateTxnFromObject({ ...sdkParams,
\* numLocalInts: sdkParams.numLocalInts ?? 0, ... })
ApplicationCreateTxn(params, suggestedParams, p) ==
    [Transaction("appl", params.sender, suggestedParams) EXCEPT
        !.appIndex = 0, !.onComplete = OnComplete(params),
        !.approvalProgram = p.approval, !.clearProgram = p.clear,
        !.numLocalInts = IF params.schema # Undef THEN params.schema ELSE 0]

\* a construction that keeps the creation transaction for application id 0
CreateOrCallTxn(params, suggestedParams, p) ==
    IF AppId(params) = 0 THEN ApplicationCreateTxn(params, suggestedParams, p)
    ELSE ApplicationCallTxn(params, suggestedParams, p)

\* let txn; if (appId === 0) { ...; txn = makeApplicationCreateTxnFromObject(...) }
\* txn = makeApplicationCallTxnFromObject(...): the second assignment is the
\* one that stays
AppCallTxn(params, suggestedParams, p) ==
    IF AppId(params) = 0
    THEN (LET created == ApplicationCreateTxn(params, suggestedParams, p)
          IN  ApplicationCallTxn(params, suggestedParams, p))
    ELSE ApplicationCallTxn(params, suggestedParams, p)

\* the result of the common build step with the build state: [err, txn, st]
WithState(r, st) == [err |-> r.err, txn |-> r.txn, st |-> st]

\* a check that lets a creation with one of the two programs pass
MissingBothPrograms(params, p) ==
    AppId(params) = 0 /\ (p.approval = NoProgram /\ p.clear = NoProgram)

\* appId === 0 and
\* sdkParams.approvalProgram === undefined || sdkParams.clearProgram === undefined
MissingPrograms(params, p) ==
    AppId(params) = 0 /\ (p.approval = NoProgram \/ p.clear = NoProgram)

\* buildAppCall once the programs p are resolved: [err, txn, st]
BuildAppCallWith(params, suggestedParams, p) ==
    IF p.err # NoError
    THEN [err |-> p.err, txn |-> ApplicationCallTxn(params, suggestedParams, p), st |-> p.st]
    ELSE IF MissingPrograms(params, p)
         THEN [err |-> Err("AppCreateProgramsRequired"),
               txn |-> ApplicationCallTxn(params, suggestedParams, p), st |-> p.st]
         ELSE WithState(CommonTxnBuildStep(params,
                                           AppCallTxn(params, suggestedParams, p),
                                           suggestedParams),
                        p.st)

\* buildAppCall: [err, txn, st]
BuildAppCall(params, suggestedParams, st) ==
    BuildAppCallWith(params, suggestedParams, ResolvePrograms(params, st))

\* signer ? ('signer' in signer ? signer.signer : signer) : getSigner(address):
\* [err, signer, st]
ResolveSigner(signer, address, st) ==
    IF signer # NoSigner THEN [err |-> NoError, signer |-> signer.fn, st |-> st]
    ELSE IF registry[address] = None
         THEN [err |-> Err("SignerLookup"), signer |-> None,
               st |-> [st EXCEPT !.nSigner = @ + 1]]
         ELSE [err |-> NoError, signer |-> registry[address],
               st |-> [st EXCEPT !.nSigner = @ + 1]]

\* atc.buildGroup() of a composer holding these transactions: the group link is
\* computed once there is more than one member
AssignGroup(transactions) ==
    IF Len(transactions) > 1
    THEN [i \in 1..Len(transactions) |->
             [transactions[i] EXCEPT !.txn.group = "group"]]
    ELSE transactions

\* buildAtc: [err, out, st]
BuildAtc(sub, st) ==
    LET n == Len(sub.transactions)
        txnWithSigners == [i \in 1..n |-> [sub.transactions[i] EXCEPT !.txn.group = None]]
        method == MapGet(sub.methodCalls, n)
    IN  IF n = 0 THEN [err |-> Err("EmptyGroup"), out |-> <<>>, st |-> st]
        ELSE [err |-> NoError, out |-> txnWithSigners,
              st |-> IF method # None
                     THEN [st EXCEPT !.mmap = MapSet(@, TxID(txnWithSigners[n].txn), method)]
                     ELSE st]

----------------------------------------------------------------------------
(* 4.4 Method-call argument resolver *)

\* A method-call argument is one of
\*   [k |-> "abi", js |-> t, elems |-> <<...>>]  a value of JavaScript kind t
\*   [k |-> "tws", tws |-> ...]                  a TransactionWithSigner
\*   [k |-> "call", call |-> ...]                a nested method call
\*   [k |-> "txn", txn |-> ...]                  a Transaction or a promise of one
AbiArg(js) == [k |-> "abi", js |-> js, elems |-> <<>>]
ArrayArg(elems) == [k |-> "abi", js |-> "array", elems |-> elems]
TwsArg(tws) == [k |-> "tws", tws |-> tws]
CallArg(call) == [k |-> "call", call |-> call]
TxnArg(txn) == [k |-> "txn", txn |-> txn]

\* typeof x
TypeOf(arg) ==
    IF arg.k = "abi" /\ arg.js \in {"boolean", "number", "bigint", "string"}
    THEN arg.js ELSE "object"

RECURSIVE isAbiValue(_)
\* isAbiValue
isAbiValue(arg) ==
    IF arg.k = "abi" /\ arg.js = "array"
    THEN Len(arg.elems) = 0 \/ \A i \in 1..Len(arg.elems) : isAbiValue(arg.elems[i])
    ELSE TypeOf(arg) \in {"boolean", "number", "bigint", "string", "Uint8Array"}

\* isTransactionWithSigner
isTransactionWithSigner(arg) == arg.k = "tws"

\* the transaction arguments in reverse argument order
TxnArgsReversed(methodArgs) ==
    LET tws == SelectSeq(methodArgs, LAMBDA x : x.k = "tws")
    IN  [i \in 1..Len(tws) |-> tws[Len(tws) + 1 - i].tws]

\* the transaction arguments among the method arguments
TxnArgs(methodArgs) ==
    LET idx == {i \in 1..Len(methodArgs) : methodArgs[i].k = "tws"}
        RECURSIVE Pick(_, _)
        Pick(i, acc) ==
            IF i > Len(methodArgs) THEN acc
            ELSE Pick(i + 1, IF i \in idx THEN Append(acc, methodArgs[i].tws) ELSE acc)
    IN  Pick(1, <<>>)

RECURSIVE BuildMethodCall(_, _, _)
RECURSIVE ResolveArgs(_, _, _, _, _)

\* methodArgs.push(...tempTxnWithSigners) after a nested call r: [err, methodArgs, st]
PushNested(params, i, suggestedParams, methodArgs, r) ==
    IF r.err # NoError THEN [err |-> r.err, methodArgs |-> methodArgs, st |-> r.st]
    ELSE ResolveArgs(params, i + 1, suggestedParams,
                     methodArgs \o [j \in 1..Len(r.out) |-> TwsArg(r.out[j])], r.st)

\* methodArgs.push({ txn, signer }) with the signer s found for a bare
\* transaction: [err, methodArgs, st]
PushTxn(params, i, suggestedParams, methodArgs, s) ==
    IF s.err # NoError THEN [err |-> s.err, methodArgs |-> methodArgs, st |-> s.st]
    ELSE ResolveArgs(params, i + 1, suggestedParams,
                     Append(methodArgs,
                            TwsArg(TransactionWithSigner(params.args[i].txn, s.signer))),
                     s.st)

\* the loop over params.args, looking up the signer of a bare transaction
\* under the sender of the call
ResolveArgsBySender(params, i, suggestedParams, methodArgs, st) ==
    IF i > Len(params.args) THEN [err |-> NoError, methodArgs |-> methodArgs, st |-> st]
    ELSE IF isAbiValue(params.args[i]) \/ isTransactionWithSigner(params.args[i])
    THEN ResolveArgs(params, i + 1, suggestedParams, Append(methodArgs, params.args[i]), st)
    ELSE IF params.args[i].k = "call"
    THEN PushNested(params, i, suggestedParams, methodArgs,
                    BuildMethodCall(params.args[i].call, suggestedParams, st))
    ELSE IF params.args[i].k # "txn"
    THEN [err |-> Err("TypeError"), methodArgs |-> methodArgs, st |-> st]
    ELSE PushTxn(params, i, suggestedParams, methodArgs,
                 ResolveSigner(params.signer, params.sender, st))

\* the loop over params.args: [err, methodArgs, st]
ResolveArgs(params, i, suggestedParams, methodArgs, st) ==
    IF i > Len(params.args) THEN [err |-> NoError, methodArgs |-> methodArgs, st |-> st]
    ELSE IF isAbiValue(params.args[i]) \/ isTransactionWithSigner(params.args[i])
    THEN ResolveArgs(params, i + 1, suggestedParams, Append(methodArgs, params.args[i]), st)
    ELSE IF params.args[i].k = "call"
    THEN PushNested(params, i, suggestedParams, methodArgs,
                    BuildMethodCall(params.args[i].call, suggestedParams, st))
    ELSE IF params.args[i].k # "txn"
    THEN [err |-> Err("TypeError"), methodArgs |-> methodArgs, st |-> st]
    ELSE PushTxn(params, i, suggestedParams, methodArgs,
                 ResolveSigner(params.signer, params.args[i].txn.from, st))

\* the method call's own transaction as methodAtc.addMethodCall makes it
MethodCallTxn(params, suggestedParams, a, p) ==
    [Transaction("appl", params.sender, suggestedParams) EXCEPT
        !.appIndex = AppId(params), !.onComplete = OnComplete(params),
        !.approvalProgram = p.approval, !.clearProgram = p.clear,
        !.numLocalInts = (IF params.schema # Undef THEN params.schema
                          ELSE IF AppId(params) = 0 THEN 0 ELSE Undef),
        !.method = params.method, !.nArgs = Len(a.methodArgs)]

\* methodAtc once the call's transaction went through the common build step c
MethodAtc(params, txnArgs, s, c) ==
    [transactions |-> Append(txnArgs, TransactionWithSigner(c.txn, s.signer)),
     methodCalls |-> {<<Len(txnArgs) + 1, params.method>>}]

\* group[methodIdx].txn = this.commonTxnBuildStep(...); return this.buildAtc(methodAtc)
FinishMethodCall(params, a, s, c) ==
    IF c.err # NoError THEN [err |-> c.err, out |-> <<>>, st |-> s.st]
    ELSE BuildAtc(MethodAtc(params, TxnArgs(a.methodArgs), s, c), s.st)

\* a method call whose own transaction skips the common build step
AddMethodCallExempt(params, suggestedParams, a, p, s) ==
    IF s.err # NoError THEN [err |-> s.err, out |-> <<>>, st |-> s.st]
    ELSE IF Len(TxnArgs(a.methodArgs)) + 1 > MAX_TRANSACTION_GROUP_SIZE
    THEN [err |-> Err("Capacity"), out |-> <<>>, st |-> s.st]
    ELSE FinishMethodCall(params, a, s,
             [err |-> NoError, txn |-> MethodCallTxn(params, suggestedParams, a, p)])

\* methodAtc.addMethodCall({ ..., signer, methodArgs }) with the signer s
AddMethodCall(params, suggestedParams, a, p, s) ==
    IF s.err # NoError THEN [err |-> s.err, out |-> <<>>, st |-> s.st]
    ELSE IF Len(TxnArgs(a.methodArgs)) + 1 > MAX_TRANSACTION_GROUP_SIZE
    THEN [err |-> Err("Capacity"), out |-> <<>>, st |-> s.st]
    ELSE FinishMethodCall(params, a, s,
             CommonTxnBuildStep(params, MethodCallTxn(params, suggestedParams, a, p),
                                suggestedParams))

\* buildMethodCall once the programs p are resolved
MethodCallWithPrograms(params, suggestedParams, a, p) ==
    IF p.err # NoError THEN [err |-> p.err, out |-> <<>>, st |-> p.st]
    ELSE AddMethodCall(params, suggestedParams, a, p,
                       ResolveSigner(params.signer, params.sender, p.st))

\* buildMethodCall once the arguments a are resolved
MethodCallWithArgs(params, suggestedParams, a) ==
    IF a.err # NoError THEN [err |-> a.err, out |-> <<>>, st |-> a.st]
    ELSE MethodCallWithPrograms(params, suggestedParams, a, ResolvePrograms(params, a.st))

\* buildMethodCall: [err, out, st]
BuildMethodCall(params, suggestedParams, st) ==
    MethodCallWithArgs(params, suggestedParams,
                       ResolveArgs(params, 1, suggestedParams, <<>>, st))

----------------------------------------------------------------------------
(* buildTxn: [err, out, st] *)

\* { ...txn, receiver: txn.sender, amount: 0n }
OptIn(txn) == [txn EXCEPT !.receiver = txn.sender, !.amount = 0]

\* an opt-out that closes the holding to nobody
OptOutWithoutClose(txn) == [txn EXCEPT !.receiver = txn.sender, !.amount = 0]

\* { ...txn, receiver: txn.sender, amount: 0n, closeAssetTo: txn.creator }
OptOut(txn) ==
    [txn EXCEPT !.receiver = txn.sender, !.amount = 0, !.closeAssetTo = txn.creator]

\* the typed builder of a simple intent: [err, txn, st]
BuildSimple(txn, suggestedParams, st) ==
    CASE txn.type = "pay" -> WithState(BuildPayment(txn, suggestedParams), st)
      [] txn.type = "assetCreate" -> WithState(BuildAssetCreate(txn, suggestedParams), st)
      [] txn.type = "appCall" -> BuildAppCall(txn, suggestedParams, st)
      [] txn.type = "assetConfig" -> WithState(BuildAssetConfig(txn, suggestedParams), st)
      [] txn.type = "assetDestroy" -> WithState(BuildAssetDestroy(txn, suggestedParams), st)
      [] txn.type = "assetFreeze" -> WithState(BuildAssetFreeze(txn, suggestedParams), st)
      [] txn.type = "assetTransfer" -> WithState(BuildAssetTransfer(txn, suggestedParams), st)
      [] txn.type = "assetOptIn" ->
            WithState(BuildAssetTransfer(OptIn(txn), suggestedParams), st)
      [] txn.type = "assetOptOut" ->
            WithState(BuildAssetTransfer(OptOut(txn), suggestedParams), st)
      [] txn.type = "keyReg" -> WithState(BuildKeyReg(txn, suggestedParams), st)

\* return [{ txn: ..., signer }] with the transaction r the typed builder made
Paired(r, signer) ==
    IF r.err # NoError THEN [err |-> r.err, out |-> <<>>, st |-> r.st]
    ELSE [err |-> NoError, out |-> <<TransactionWithSigner(r.txn, signer)>>, st |-> r.st]

\* the switch (txn.type) of buildTxn with the signer s found for the intent
BuildTxnWithSigner(txn, suggestedParams, s) ==
    IF s.err # NoError THEN [err |-> s.err, out |-> <<>>, st |-> s.st]
    ELSE Paired(BuildSimple(txn, suggestedParams, s.st), s.signer)

\* buildTxn: [err, out, st]
BuildTxn(txn, suggestedParams, st) ==
    IF txn.type = "atc" THEN BuildAtc(txn.atc, st)
    ELSE IF txn.type = "methodCall" THEN BuildMethodCall(txn, suggestedParams, st)
    ELSE BuildTxnWithSigner(txn, suggestedParams,
                            ResolveSigner(txn.signer, txn.sender, st))

----------------------------------------------------------------------------
(* 4.5 Atomic group assembler *)

\* a new algosdk.AtomicTransactionComposer()
NewAtc == [status |-> "BUILDING", transactions |-> <<>>, methodCalls |-> {}]

\* an addTransaction that never throws
AddTransactionsUnbounded(a, txnWithSigners) ==
    [err |-> NoError, atc |-> [a EXCEPT !.transactions = @ \o txnWithSigners]]

\* txnWithSigners.forEach((ts) => this.atc.addTransaction(ts)): [err, atc].
\* addTransaction throws once the composer holds MAX_TRANSACTION_GROUP_SIZE
\* transactions; the ones added before the throw stay in it.
AddTransactions(a, txnWithSigners) ==
    LET room == MAX_TRANSACTION_GROUP_SIZE - Len(a.transactions)
        fits == IF Len(txnWithSigners) <= room THEN Len(txnWithSigners) ELSE room
        added == [a EXCEPT !.transactions = @ \o SubSeq(txnWithSigners, 1, fits)]
    IN  IF Len(txnWithSigners) > room THEN [err |-> Err("Capacity"), atc |-> added]
        ELSE [err |-> NoError, atc |-> added]

\* a map that holds the method of the last transaction only
MethodCallsOfLast(txnWithSigners, mmap) ==
    {<<i, MapGet(mmap, TxID(txnWithSigners[i].txn))>> :
        i \in {j \in {Len(txnWithSigners)} \ {0} :
                  MapGet(mmap, TxID(txnWithSigners[j].txn)) # None}}

\* the index -> method map that build() hands to the group
MethodCalls(txnWithSigners, mmap) ==
    {<<i, MapGet(mmap, TxID(txnWithSigners[i].txn))>> :
        i \in {j \in 1..Len(txnWithSigners) :
                  MapGet(mmap, TxID(txnWithSigners[j].txn)) # None}}

RECURSIVE BuildAll(_, _, _, _)

\* txnWithSigners.unshift(...) in place of txnWithSigners.push(...)
PrependBuilt(i, suggestedParams, out, r) ==
    IF r.err # NoError THEN [err |-> r.err, out |-> out, st |-> r.st]
    ELSE BuildAll(i + 1, suggestedParams, r.out \o out, r.st)

\* txnWithSigners.push(...(await this.buildTxn(txn, suggestedParams))) with the
\* result r of buildTxn, then the rest of the loop
PushBuilt(i, suggestedParams, out, r) ==
    IF r.err # NoError THEN [err |-> r.err, out |-> out, st |-> r.st]
    ELSE BuildAll(i + 1, suggestedParams, out \o r.out, r.st)

\* for (const txn of this.txns) ...: [err, out, st]
BuildAll(i, suggestedParams, out, st) ==
    IF i > Len(txns) THEN [err |-> NoError, out |-> out, st |-> st]
    ELSE PushBuilt(i, suggestedParams, out, BuildTxn(txns[i], suggestedParams, st))

\* the status test that lets every build() after the first skip the resolution
IsBuildingAlways(a) == TRUE

\* this.atc.getStatus() === algosdk.AtomicTransactionComposerStatus.BUILDING
IsBuilding(a) == a.status = "BUILDING"

\* this.atc['methodCalls'] = methodCalls; this.atc.buildGroup(), on the group
\* withMethods: buildGroup throws on an empty group
BuildGroup(r, withMethods) ==
    IF Len(withMethods.transactions) = 0
    THEN [err |-> Err("EmptyGroup"), atc |-> withMethods, st |-> r.st, nParams |-> 1,
          resolved |-> TRUE]
    ELSE [err |-> NoError,
          atc |-> [withMethods EXCEPT !.status = "BUILT", !.transactions = AssignGroup(@)],
          st |-> r.st, nParams |-> 1, resolved |-> TRUE]

\* build() after the addTransaction calls
AfterAdd(r, added) ==
    IF added.err # NoError
    THEN [err |-> added.err, atc |-> added.atc, st |-> r.st, nParams |-> 1,
          resolved |-> TRUE]
    ELSE BuildGroup(r, [added.atc EXCEPT !.methodCalls = MethodCalls(r.out, r.st.mmap)])

\* build() after the loop over this.txns
AfterResolve(a, r) ==
    IF r.err # NoError
    THEN [err |-> r.err, atc |-> a, st |-> r.st, nParams |-> 1, resolved |-> TRUE]
    ELSE AfterAdd(r, AddTransactions(a, r.out))

\* build() on a composer whose group is a: [err, atc, st, nParams, resolved]
BuildFrom(a) ==
    IF ~IsBuilding(a)
    THEN [err |-> NoError, atc |-> a, st |-> BuildState(txnMethodMap, compilationResults),
          nParams |-> 0, resolved |-> FALSE]
    ELSE IF network.fault = "params"
    THEN [err |-> Err("ParamsFetch"), atc |-> a,
          st |-> BuildState(txnMethodMap, compilationResults), nParams |-> 1,
          resolved |-> TRUE]
    ELSE AfterResolve(a, BuildAll(1, SuggestedParams(network.fee, network.firstRound), <<>>,
                                  BuildState(txnMethodMap, compilationResults)))

\* The outcome of a build(), rebuild() or execute() call as its caller and its
\* collaborators see it: the error thrown, whether the call resolved the intents,
\* the calls it made of getSuggestedParams, getSigner and algod.compile, and
\* whether and with which rounds to wait it called sendAtomicTransactionComposer.
Outcome(op, b, budget, submitted, waitRounds, nParams) ==
    [op |-> op, err |-> b.err, resolved |-> b.resolved, nParams |-> nParams,
     nSigner |-> b.st.nSigner, nCompile |-> b.st.nCompile, budget |-> budget,
     submitted |-> submitted, waitRounds |-> waitRounds]

\* no such call has just returned
NoCall == [op |-> "none", err |-> NoError, resolved |-> FALSE, nParams |-> 0,
           nSigner |-> 0, nCompile |-> 0, budget |-> Undef, submitted |-> FALSE,
           waitRounds |-> Undef]

\* the composer after the build b, which call op made
Built(op, b) ==
    /\ atc' = b.atc
    /\ txnMethodMap' = b.st.mmap
    /\ compilationResults' = b.st.comp
    /\ last' = Outcome(op, b, Undef, FALSE, Undef, b.nParams)
    /\ UNCHANGED <<txns, defaultValidityWindow, network, registry, compiles, builds>>

\* build()
Build == Built("build", BuildFrom(atc))

\* rebuild() without the new AtomicTransactionComposer
RebuildKeepingGroup == Built("rebuild", BuildFrom(atc))

\* rebuild()
Rebuild == Built("rebuild", BuildFrom(NewAtc))

----------------------------------------------------------------------------
(* 4.6 Execution coordinator *)

RECURSIVE MaxLastRound(_, _, _)
\* group.reduce((max, txn) => Math.max(txn.txn.lastRound, max), 0)
MaxLastRound(group, i, max) ==
    IF i > Len(group) THEN max
    ELSE MaxLastRound(group, i + 1, Max(group[i].txn.lastRound, max))

\* lastRound - firstRound, as the earlier composer computed it
WaitRoundsExclusive(group, firstRound) == MaxLastRound(group, 1, 0) - firstRound

\* lastRound - firstRound + 1
WaitRounds(group, firstRound) == MaxLastRound(group, 1, 0) - firstRound + 1

\* the wait budget handed to sendAtomicTransactionComposer
Budget(maxRoundsToWaitForConfirmation, group) ==
    IF maxRoundsToWaitForConfirmation = Undef
    THEN WaitRounds(group, network.firstRound)
    ELSE maxRoundsToWaitForConfirmation

\* execute(params) that submits whatever the group holds when the build fails
SubmitRegardless(maxRoundsToWaitForConfirmation, b) ==
    /\ atc' = b.atc
    /\ txnMethodMap' = b.st.mmap
    /\ compilationResults' = b.st.comp
    /\ last' = Outcome("execute", b, maxRoundsToWaitForConfirmation, TRUE,
                       Budget(maxRoundsToWaitForConfirmation, b.atc.transactions),
                       b.nParams)
    /\ UNCHANGED <<txns, defaultValidityWindow, network, registry, compiles, builds>>

\* execute(params) after its build() call b: the failure of the build is thrown,
\* or the group is handed to sendAtomicTransactionComposer with the rounds to
\* wait, which take a second getSuggestedParams() call to compute
Submit(maxRoundsToWaitForConfirmation, b) ==
    /\ atc' = b.atc
    /\ txnMethodMap' = b.st.mmap
    /\ compilationResults' = b.st.comp
    /\ last' = IF b.err # NoError
               THEN Outcome("execute", b, maxRoundsToWaitForConfirmation, FALSE, Undef,
                            b.nParams)
               ELSE IF maxRoundsToWaitForConfirmation = Undef /\ network.fault = "params"
               THEN Outcome("execute", [b EXCEPT !.err = Err("ParamsFetch")],
                            maxRoundsToWaitForConfirmation, FALSE, Undef, b.nParams + 1)
               ELSE Outcome("execute", b, maxRoundsToWaitForConfirmation, TRUE,
                            Budget(maxRoundsToWaitForConfirmation, b.atc.transactions),
                            b.nParams
                              + (IF maxRoundsToWaitForConfirmation = Undef THEN 1 ELSE 0))
    /\ UNCHANGED <<txns, defaultValidityWindow, network, registry, compiles, builds>>

\* execute(params)
Execute(maxRoundsToWaitForConfirmation) ==
    Submit(maxRoundsToWaitForConfirmation, BuildFrom(atc))

----------------------------------------------------------------------------
(* The intents the callers of the model add *)

Addresses == {"A", "B", "C"}

\* the fee-per-byte rates the network reports
FeeRates == {0, 1, 5}

\* the genesis ids of a public network and of LocalNet
PublicNet == "mainnet-v1.0"
LocalNet == "dockernet-v1"

\* a validity window passed to the constructor
ConfiguredWindow == 3

\* The composers of the model: the fee rate and genesis id of the network
\* they talk to and the defaultValidityWindow their constructor is given.
Configurations ==
    [fee : FeeRates, genesisID : {PublicNet}, defaultValidityWindow : {Undef}]
    \cup {[fee |-> 0, genesisID |-> LocalNet, defaultValidityWindow |-> Undef],
          [fee |-> 0, genesisID |-> PublicNet, defaultValidityWindow |-> ConfiguredWindow]}

\* a payment of 1 from A to B with every optional parameter unset
PlainPayment ==
    [Params("pay", "A") EXCEPT !.receiver = "B", !.amount = 1]

\* a payment with a 5-round validity window, an extra fee and a fee ceiling,
\* whose sender's signer comes from the registry
WindowPayment ==
    [Params("pay", "B") EXCEPT !.receiver = "A", !.amount = 2, !.validityWindow = 5,
                               !.extraFee = 500, !.maxFee = 1500, !.note = "note"]

\* a payment that sets both staticFee and extraFee, each to zero
ConflictPayment ==
    [Params("pay", "A") EXCEPT !.receiver = "B", !.amount = 3, !.staticFee = 0,
                               !.extraFee = 0, !.signer = SignerAccount("signerX")]

\* a payment with a static fee above its ceiling and explicit rounds
StaticPayment ==
    [Params("pay", "A") EXCEPT !.receiver = "B", !.amount = 4, !.staticFee = 2000,
                               !.maxFee = 1999, !.signer = SignerFn("signerY"),
                               !.firstValidRound = 5, !.lastValidRound = 9]

\* a payment whose sender has no registered signer
UnsignedPayment ==
    [Params("pay", "C") EXCEPT !.receiver = "A", !.amount = 6]

\* a payment that asks for first valid round 0 and a validity window of 0
ZeroRoundPayment ==
    [Params("pay", "A") EXCEPT !.receiver = "B", !.amount = 8, !.firstValidRound = 0,
                               !.validityWindow = 0]

\* a payment that asks for last valid round 0
ZeroLastRoundPayment ==
    [Params("pay", "A") EXCEPT !.receiver = "B", !.amount = 9, !.lastValidRound = 0]

Payments == {PlainPayment, WindowPayment, ConflictPayment, StaticPayment, UnsignedPayment,
             ZeroRoundPayment, ZeroLastRoundPayment}

AssetCreate == [Params("assetCreate", "A") EXCEPT !.amount = 100]
AssetConfig == [Params("assetConfig", "A") EXCEPT !.assetId = 1, !.manager = "B"]
AssetFreeze == [Params("assetFreeze", "A") EXCEPT !.assetId = 1, !.receiver = "B"]
AssetDestroy == [Params("assetDestroy", "A") EXCEPT !.assetId = 1]
AssetTransfer ==
    [Params("assetTransfer", "A") EXCEPT !.assetId = 1, !.receiver = "B", !.amount = 7]
\* an asset transfer with both staticFee and extraFee set
ConflictAssetTransfer ==
    [AssetTransfer EXCEPT !.staticFee = 1000, !.extraFee = 500]
AssetTransfers == {AssetTransfer, ConflictAssetTransfer}
AssetOptIn == [Params("assetOptIn", "B") EXCEPT !.assetId = 1]
AssetOptOut == [Params("assetOptOut", "B") EXCEPT !.assetId = 1, !.creator = "A"]
OnlineKeyRegistration == Params("keyReg", "A")

AppCreate ==
    [Params("appCall", "A") EXCEPT !.onComplete = "NoOp",
                                   !.approvalProgram = Teal("approval"),
                                   !.clearProgram = Teal("clear")]
AppUpdate ==
    [Params("appCall", "A") EXCEPT !.appId = 7, !.approvalProgram = Bytes("approval2"),
                                   !.clearProgram = Bytes("clear2")]
AppCall == [Params("appCall", "A") EXCEPT !.appId = 7, !.onComplete = "NoOp"]
\* an application call with both staticFee and extraFee set, the first to zero
ConflictAppCall == [AppCall EXCEPT !.staticFee = 0, !.extraFee = 1000]
\* application creations that lack a program: both, the clear program (with
\* an application id of 0 spelled out), the approval program
BareCreate == [Params("appCall", "A") EXCEPT !.onComplete = "NoOp"]
ApprovalOnlyCreate ==
    [Params("appCall", "A") EXCEPT !.appId = 0, !.onComplete = "NoOp",
                                   !.approvalProgram = Bytes("approval")]
ClearOnlyCreate ==
    [Params("appCall", "A") EXCEPT !.onComplete = "NoOp", !.clearProgram = Bytes("clear")]
\* a creation that declares its local schema
SchemaCreate ==
    [Params("appCall", "A") EXCEPT !.appId = 0, !.onComplete = "NoOp",
                                   !.approvalProgram = Bytes("approval"),
                                   !.clearProgram = Bytes("clear"), !.schema = 2]
AppCalls == {AppCall, ConflictAppCall, BareCreate, ApprovalOnlyCreate, ClearOnlyCreate,
             SchemaCreate}

\* a payment built outside the composer and passed as a method argument
ArgPayment ==
    [Transaction("pay", "B", SuggestedParams(0, 0)) EXCEPT
        !.to = "B", !.fee = ALGORAND_MIN_TX_FEE, !.flatFee = TRUE, !.lastRound = 10]

\* doMath(uint64,uint64,string): no transaction argument
DoMathCall ==
    [Params("methodCall", "A") EXCEPT
        !.appId = 7, !.onComplete = "NoOp", !.method = "doMath",
        !.args = <<AbiArg("number"), AbiArg("number"), AbiArg("string")>>]

\* txnArg(pay): one bare transaction argument
TxnArgCall ==
    [Params("methodCall", "A") EXCEPT
        !.appId = 7, !.onComplete = "NoOp", !.method = "txnArg",
        !.args = <<TxnArg(ArgPayment)>>, !.validityWindow = 7]

\* nestedTxnArg(pay,appl): its one argument is the txnArg call
NestedTxnArgCall ==
    [Params("methodCall", "A") EXCEPT
        !.appId = 7, !.onComplete = "NoOp", !.method = "nestedTxnArg",
        !.args = <<CallArg(TxnArgCall)>>, !.signer = SignerFn("signerX")]

\* helloWorld() with both staticFee and extraFee set
ConflictCall ==
    [Params("methodCall", "A") EXCEPT
        !.appId = 7, !.onComplete = "NoOp", !.method = "helloWorld",
        !.staticFee = 1000, !.extraFee = 0]

\* methodArg(appl): its one argument is the conflicting call
NestedConflictCall ==
    [Params("methodCall", "A") EXCEPT
        !.appId = 7, !.onComplete = "NoOp", !.method = "methodArg",
        !.args = <<CallArg(ConflictCall)>>]

\* a method taking MAX_TRANSACTION_GROUP_SIZE bare transactions: one more
\* transaction than a group holds, its own included
WideCall ==
    [Params("methodCall", "A") EXCEPT
        !.appId = 7, !.onComplete = "NoOp", !.method = "wide",
        !.args = [i \in 1..MAX_TRANSACTION_GROUP_SIZE |-> TxnArg(ArgPayment)],
        !.signer = SignerFn("signerX")]

\* txnArg(pay) once more, on another payment and with a note
SecondTxnArgCall ==
    [TxnArgCall EXCEPT !.args = <<TxnArg([ArgPayment EXCEPT !.amount = 1])>>, !.note = "1"]

\* doubleNestedTxnArg(pay,appl,pay,appl): its two arguments are txnArg calls
DoubleNestedTxnArgCall ==
    [Params("methodCall", "A") EXCEPT
        !.appId = 7, !.onComplete = "NoOp", !.method = "doubleNestedTxnArg",
        !.args = <<CallArg(TxnArgCall), CallArg(SecondTxnArgCall)>>]

\* helloWorld() with every common parameter set and a static fee equal to
\* its ceiling
ParametrisedCall ==
    [Params("methodCall", "A") EXCEPT
        !.appId = 7, !.onComplete = "NoOp", !.method = "helloWorld",
        !.note = "inner", !.lease = "lease", !.rekeyTo = "C",
        !.staticFee = 2000, !.maxFee = 2000,
        !.firstValidRound = 1, !.lastValidRound = 5]

\* methodArg(appl) on the call above, with parameters of its own
NestedParametrisedCall ==
    [Params("methodCall", "B") EXCEPT
        !.appId = 7, !.onComplete = "NoOp", !.method = "methodArg",
        !.args = <<CallArg(ParametrisedCall)>>,
        !.note = "outer", !.extraFee = 500, !.maxFee = 2000, !.validityWindow = 4]

\* helloWorld() with a static fee above its ceiling
CeilingCall ==
    [Params("methodCall", "A") EXCEPT
        !.appId = 7, !.onComplete = "NoOp", !.method = "helloWorld",
        !.staticFee = 2000, !.maxFee = 1000]

\* methodArg(appl) on the call above
NestedCeilingCall ==
    [Params("methodCall", "A") EXCEPT
        !.appId = 7, !.onComplete = "NoOp", !.method = "methodArg",
        !.args = <<CallArg(CeilingCall)>>]

\* a method taking a boolean, a bigint, an empty array and a nested array
ValuesCall ==
    [Params("methodCall", "A") EXCEPT
        !.appId = 7, !.onComplete = "NoOp", !.method = "values",
        !.args = <<AbiArg("boolean"), AbiArg("bigint"), ArrayArg(<<>>),
                   ArrayArg(<<AbiArg("number"), ArrayArg(<<AbiArg("string")>>)>>)>>]

\* a method taking a byte[] that is given a Uint8Array
BytesCall ==
    [Params("methodCall", "A") EXCEPT
        !.appId = 7, !.onComplete = "NoOp", !.method = "bytes",
        !.args = <<AbiArg("Uint8Array")>>]

\* txnArg(pay) with a signer of its own
SignedTxnArgCall == [TxnArgCall EXCEPT !.signer = SignerFn("signerX")]

\* a payment of B that comes with its signer
SignedArgPayment == TransactionWithSigner([ArgPayment EXCEPT !.amount = 2], "signerT")

\* twoTxnArgs(uint64,pay,pay): a value, a transaction with its signer and a bare
\* transaction, called without a signer and with the signer of an account
TwoTxnArgsCall ==
    [Params("methodCall", "A") EXCEPT
        !.appId = 7, !.onComplete = "NoOp", !.method = "twoTxnArgs",
        !.args = <<AbiArg("number"), TwsArg(SignedArgPayment), TxnArg(ArgPayment)>>]
SignedTwoTxnArgsCall == [TwoTxnArgsCall EXCEPT !.signer = SignerAccount("signerY")]

MethodCallIntents == {DoMathCall, TxnArgCall, NestedTxnArgCall, DoubleNestedTxnArgCall,
                      ConflictCall, NestedConflictCall, WideCall,
                      ParametrisedCall, NestedParametrisedCall, NestedCeilingCall,
                      ValuesCall, BytesCall,
                      SignedTxnArgCall, TwoTxnArgsCall, SignedTwoTxnArgsCall}

\* a transaction of a sub-group built by another composer
SubTxn(n) ==
    TransactionWithSigner(
        [Transaction("appl", "A", SuggestedParams(0, 0)) EXCEPT
            !.appIndex = 7, !.onComplete = "NoOp", !.method = "doMath", !.nArgs = n,
            !.fee = ALGORAND_MIN_TX_FEE, !.flatFee = TRUE, !.lastRound = 20,
            !.group = "subgroup"],
        "signerS")

\* the generated client's doMath call as a sub-group of one transaction
SmallAtc ==
    [Params("atc", None) EXCEPT
        !.atc = [transactions |-> <<SubTxn(1)>>, methodCalls |-> {<<1, "doMath">>}]]

\* a full sub-group
FullAtc ==
    [Params("atc", None) EXCEPT
        !.atc = [transactions |-> [i \in 1..MAX_TRANSACTION_GROUP_SIZE |-> SubTxn(i)],
                 methodCalls |-> {<<MAX_TRANSACTION_GROUP_SIZE, "doMath">>}]]

\* a sub-group of two method calls, each registered with its method
TwoCallAtc ==
    [Params("atc", None) EXCEPT
        !.atc = [transactions |-> <<SubTxn(1), SubTxn(2)>>,
                 methodCalls |-> {<<1, "doMath">>, <<2, "doMath">>}]]

AtcIntents == {SmallAtc, FullAtc, TwoCallAtc}

\* the intents long lists are made of
BulkIntents == {PlainPayment, FullAtc}

\* the intents that follow the first one in the lists of several kinds
Followers == {WindowPayment, ConflictPayment, TxnArgCall, SmallAtc}

\* the composer was constructed without a window and talks to a public network
DefaultConfiguration ==
    network.genesisID = PublicNet /\ defaultValidityWindow = DEFAULT_VALIDITY_WINDOW

\* an intent may be added: any intent to the empty list and, to a composer in
\* the default configuration, a follower to a short list and a plain payment to
\* a list of plain payments and full sub-groups
MayAdd(intent) ==
    \/ txns = <<>>
    \/ DefaultConfiguration /\ Len(txns) < MaxVaried /\ intent \in Followers
    \/ /\ DefaultConfiguration
       /\ Len(txns) < MaxTxns
       /\ intent = PlainPayment
       /\ \A i \in 1..Len(txns) : txns[i] \in BulkIntents

\* this.txns.unshift({ ...params, type })
PushFront(intent) ==
    /\ MayAdd(intent)
    /\ txns' = <<intent>> \o txns
    /\ last' = NoCall
    /\ UNCHANGED <<atc, txnMethodMap, compilationResults, defaultValidityWindow,
                   network, registry, compiles, builds>>

\* this.txns.push({ ...params, type }); return this
Push(intent) ==
    /\ MayAdd(intent)
    /\ txns' = Append(txns, intent)
    /\ last' = NoCall
    /\ UNCHANGED <<atc, txnMethodMap, compilationResults, defaultValidityWindow,
                   network, registry, compiles, builds>>

addPayment == \E params \in Payments : Push(params)
addAssetCreate == Push(AssetCreate)
addAssetConfig == Push(AssetConfig)
addAssetFreeze == Push(AssetFreeze)
addAssetDestroy == Push(AssetDestroy)
addAssetTransfer == \E params \in AssetTransfers : Push(params)
addAssetOptIn == Push(AssetOptIn)
addAssetOptOut == Push(AssetOptOut)
addAppCreate == Push(AppCreate)
addAppUpdate == Push(AppUpdate)
addAppCall == \E params \in AppCalls : Push(params)
addMethodCall == \E params \in MethodCallIntents : Push(params)
addOnlineKeyRegistration == Push(OnlineKeyRegistration)
addAtc == \E sub \in AtcIntents : Push(sub)

----------------------------------------------------------------------------
(* The collaborators *)

\* the network moves on to the next round
Tick ==
    /\ network.fault = None
    /\ network.firstRound < MaxRound
    /\ network' = [network EXCEPT !.firstRound = @ + 1]
    /\ last' = NoCall
    /\ UNCHANGED <<txns, atc, txnMethodMap, compilationResults, defaultValidityWindow,
                   registry, compiles, builds>>

\* the account manager is given a new signer for B
SetSigner ==
    /\ network.fault = None
    /\ registry["B"] = "signerB"
    /\ registry' = [registry EXCEPT !["B"] = "signerB2"]
    /\ last' = NoCall
    /\ UNCHANGED <<txns, atc, txnMethodMap, compilationResults, defaultValidityWindow,
                   network, compiles, builds>>

----------------------------------------------------------------------------

\* The callers' own compileTeal calls: at most MaxCalls of them, each on one
\* of the source texts
MaxCalls == 3
Calls == 1..MaxCalls
Texts == {"approval", "clear"}

\* The calls a caller makes of compileTeal and getCompilationResult:
\*   pc       where each call stands: "idle" (not made), "awaiting" (suspended
\*            at await this.algod.compile(...)), "done" (returned)
\*   text     the source text each call was given
\*   result   what each call returned
\*   invoked  how often algod.compile was called for each text
\*   fired    how often onCompilationResult was called for each text
\*   read     the last getCompilationResult(text) and what it returned
\* no call has been made yet
NoCompiles ==
    [pc |-> [c \in Calls |-> "idle"], text |-> [c \in Calls |-> None],
     result |-> [c \in Calls |-> NoProgram],
     invoked |-> [t \in Texts |-> 0], fired |-> [t \in Texts |-> 0],
     read |-> [text |-> None, result |-> NoProgram]]

\* The overlapping build() calls: at most MaxBuilds of them
MaxBuilds == 2
Builders == 1..MaxBuilds

\* The build() calls of callers that do not wait for one another:
\*   pc          where each call stands: "idle" (not made), "awaiting"
\*               (suspended at an await of build()), "done" (returned or threw)
\*   overlapped  whether the call ran while another call was suspended
\*   err         the error each call threw
\*   group       the transactions each call returned
\* no call has been made yet
NoBuilds ==
    [pc |-> [c \in Builders |-> "idle"], overlapped |-> [c \in Builders |-> FALSE],
     err |-> [c \in Builders |-> NoError], group |-> [c \in Builders |-> <<>>]]

Init ==
    /\ txns = <<>>
    /\ atc = NewAtc
    /\ txnMethodMap = {}
    /\ compilationResults = {}
    /\ \E params \in Configurations :
          /\ defaultValidityWindow =
                 IF params.defaultValidityWindow # Undef THEN params.defaultValidityWindow
                 ELSE DEFAULT_VALIDITY_WINDOW
          /\ network = [fee |-> params.fee, firstRound |-> 0,
                        genesisID |-> params.genesisID, fault |-> None]
    /\ registry = [a \in Addresses |->
                      CASE a = "A" -> "signerA" [] a = "B" -> "signerB" [] OTHER -> None]
    /\ last = NoCall
    /\ compiles = NoCompiles
    /\ builds = NoBuilds

\* the wait budgets the callers of execute() pass
WaitBudgets == {Undef, 0}

Next ==
    \/ addPayment
    \/ addAssetCreate
    \/ addAssetConfig
    \/ addAssetFreeze
    \/ addAssetDestroy
    \/ addAssetTransfer
    \/ addAssetOptIn
    \/ addAssetOptOut
    \/ addAppCreate
    \/ addAppUpdate
    \/ addAppCall
    \/ addMethodCall
    \/ addOnlineKeyRegistration
    \/ addAtc
    \/ Build
    \/ Rebuild
    \/ \E budget \in WaitBudgets : Execute(budget)
    \/ Tick
    \/ SetSigner

Spec == Init /\ [][Next]_vars

----------------------------------------------------------------------------
(* The composer with collaborators that fail: the parameter source or the    *)
(* compiler rejects every request for a while, and the signer missing from   *)
(* the registry is registered after a lookup of it failed. Outages begin in  *)
(* round 0 under the first signers, and the round and the signers stay as    *)
(* they are while one lasts.                                                 *)

\* the collaborators that can be out of service
Collaborators == {"params", "compile"}

\* getSuggestedParams() or algod.compile() starts rejecting
Outage(collaborator) ==
    /\ network.fault = None
    /\ network.firstRound = 0
    /\ registry["B"] = "signerB"
    /\ network' = [network EXCEPT !.fault = collaborator]
    /\ last' = NoCall
    /\ UNCHANGED <<txns, atc, txnMethodMap, compilationResults, defaultValidityWindow,
                   registry, compiles, builds>>

\* the collaborator answers again
Recover ==
    /\ network.fault # None
    /\ network' = [network EXCEPT !.fault = None]
    /\ last' = NoCall
    /\ UNCHANGED <<txns, atc, txnMethodMap, compilationResults, defaultValidityWindow,
                   registry, compiles, builds>>

\* the account manager is given the signer of C after getSigner("C") threw
RegisterSigner ==
    /\ last.err.kind = "SignerLookup"
    /\ registry["C"] = None
    /\ registry' = [registry EXCEPT !["C"] = "signerC"]
    /\ last' = NoCall
    /\ UNCHANGED <<txns, atc, txnMethodMap, compilationResults, defaultValidityWindow,
                   network, compiles, builds>>

NextFaults ==
    \/ Next
    \/ \E collaborator \in Collaborators : Outage(collaborator)
    \/ Recover
    \/ RegisterSigner

SpecFaults == Init /\ [][NextFaults]_vars

----------------------------------------------------------------------------
(* build() as callers see it that do not wait for one call before making     *)
(* the next: an async function that tests the status of the group, is        *)
(* suspended at its awaits (the parameter fetch, the resolution of each      *)
(* intent), and fills the group in one piece after the last of them. The     *)
(* awaits of one call are taken as one suspension. The intents are all       *)
(* added before the first call.                                              *)

\* some build() call is suspended
SomeAwaiting == \E d \in Builders : builds.pc[d] = "awaiting"

\* the calls that count as overlapped once the call c starts
OverlappedBy(c) ==
    [d \in Builders |->
        \/ builds.overlapped[d]
        \/ SomeAwaiting /\ (d = c \/ builds.pc[d] = "awaiting")]

\* txnWithSigners.forEach((ts) => this.atc.addTransaction(ts)) on the group as
\* it is after the awaits: addTransaction throws unless the status is BUILDING
AddTransactionsNow(a, txnWithSigners) ==
    IF a.status # "BUILDING" /\ Len(txnWithSigners) > 0
    THEN [err |-> Err("NotBuilding"), atc |-> a]
    ELSE AddTransactions(a, txnWithSigners)

\* build() after the loop over this.txns, on the group as it is by then
AfterResolveNow(a, r) ==
    IF r.err # NoError
    THEN [err |-> r.err, atc |-> a, st |-> r.st, nParams |-> 1, resolved |-> TRUE]
    ELSE AfterAdd(r, AddTransactionsNow(a, r.out))

\* build() from its first await on
ResumeBuild(a) ==
    AfterResolveNow(a, BuildAll(1, SuggestedParams(network.fee, network.firstRound), <<>>,
                                BuildState(txnMethodMap, compilationResults)))

\* what the call returns: { atc, transactions: this.atc.buildGroup() }
Returns(b) == IF b.err = NoError THEN b.atc.transactions ELSE <<>>

\* build() up to its first await: the status test, and the return of the
\* group when it is Built
buildStart(c) ==
    /\ builds.pc[c] = "idle"
    /\ txns # <<>>
    /\ builds' =
          IF IsBuilding(atc)
          THEN [builds EXCEPT !.pc[c] = "awaiting", !.overlapped = OverlappedBy(c)]
          ELSE [builds EXCEPT !.pc[c] = "done", !.overlapped = OverlappedBy(c),
                              !.group[c] = atc.transactions]
    /\ UNCHANGED <<txns, atc, txnMethodMap, compilationResults, defaultValidityWindow,
                   network, registry, last, compiles>>

\* the build b of the call c has run to its end
Resumed(c, b) ==
    /\ atc' = b.atc
    /\ txnMethodMap' = b.st.mmap
    /\ compilationResults' = b.st.comp
    /\ builds' = [builds EXCEPT !.pc[c] = "done", !.err[c] = b.err,
                                !.group[c] = Returns(b)]
    /\ UNCHANGED <<txns, defaultValidityWindow, network, registry, last, compiles>>

\* build() after its awaits
buildFinish(c) ==
    /\ builds.pc[c] = "awaiting"
    /\ Resumed(c, ResumeBuild(atc))

\* the intents are added before the first build() call
AddBeforeBuilds ==
    /\ \A c \in Builders : builds.pc[c] = "idle"
    /\ (addPayment \/ addAppCreate \/ addMethodCall \/ addAtc)

NextOverlap ==
    \/ AddBeforeBuilds
    \/ \E c \in Builders : buildStart(c)
    \/ \E c \in Builders : buildFinish(c)

SpecOverlap == Init /\ [][NextOverlap]_vars

----------------------------------------------------------------------------
(* compileTeal as its callers see it: an async function that is suspended    *)
(* at its await, so that other calls run between its two halves.             *)

\* compileTeal up to the await: return the stored result, or call
\* algod.compile and wait for it
compileTealStart(c, tealCode) ==
    /\ compiles.pc[c] = "idle"
    /\ compiles' =
          IF tealCode \in compilationResults
          THEN [compiles EXCEPT !.pc[c] = "done", !.text[c] = tealCode,
                                !.result[c] = GetCompilationResult(tealCode),
                                !.read = NoCompiles.read]
          ELSE [compiles EXCEPT !.pc[c] = "awaiting", !.text[c] = tealCode,
                                !.invoked[tealCode] = @ + 1,
                                !.read = NoCompiles.read]
    /\ UNCHANGED <<txns, atc, txnMethodMap, compilationResults, defaultValidityWindow,
                   network, registry, last, builds>>

\* compileTeal after the await: store the result, report it, return it
compileTealFinish(c) ==
    /\ compiles.pc[c] = "awaiting"
    /\ compilationResults' = compilationResults \cup {compiles.text[c]}
    /\ compiles' = [compiles EXCEPT !.pc[c] = "done",
                                    !.result[c] = Compiled(compiles.text[c]),
                                    !.fired[compiles.text[c]] = @ + 1,
                                    !.read = NoCompiles.read]
    /\ UNCHANGED <<txns, atc, txnMethodMap, defaultValidityWindow, network, registry,
                   last, builds>>

\* getCompilationResult(tealCode) called by a caller
getCompilationResult(tealCode) ==
    /\ compiles' = [compiles EXCEPT
                       !.read = [text |-> tealCode,
                                 result |-> GetCompilationResult(tealCode)]]
    /\ UNCHANGED <<txns, atc, txnMethodMap, compilationResults, defaultValidityWindow,
                   network, registry, last, builds>>

NextCompile ==
    \/ \E c \in Calls, tealCode \in Texts : compileTealStart(c, tealCode)
    \/ \E c \in Calls : compileTealFinish(c)
    \/ \E tealCode \in Texts : getCompilationResult(tealCode)

SpecCompile == Init /\ [][NextCompile]_vars

----------------------------------------------------------------------------
(* Vocabulary of the properties *)

\* a build(), rebuild() or execute() call has just returned or thrown
Called == last.op \in {"build", "rebuild", "execute"}

\* ... and it resolved the pending intents (the composer was Building)
Resolving == Called /\ last.resolved

\* ... and it returned the group
Returned == Called /\ last.err = NoError

\* the group held by the composer
Group == atc.transactions

IsSimple(intent) == intent.type \notin {"methodCall", "atc"}

AllSimple == \A i \in 1..Len(txns) : IsSimple(txns[i])

\* the signer an intent asks for: its own, or the one registered for its sender
WantedSigner(intent) ==
    IF intent.signer # NoSigner THEN intent.signer.fn ELSE registry[intent.sender]

\* the wire type, receiver and amount a simple intent asks for
WantedType(intent) ==
    CASE intent.type = "pay" -> "pay"
      [] intent.type \in {"assetTransfer", "assetOptIn", "assetOptOut"} -> "axfer"
      [] intent.type \in {"assetCreate", "assetConfig", "assetDestroy"} -> "acfg"
      [] intent.type = "assetFreeze" -> "afrz"
      [] intent.type = "keyReg" -> "keyreg"
      [] intent.type = "appCall" -> "appl"

WantedReceiver(intent) ==
    IF intent.type \in {"assetOptIn", "assetOptOut"} THEN intent.sender
    ELSE intent.receiver

WantedAmount(intent) ==
    IF intent.type \in {"assetOptIn", "assetOptOut"} THEN 0 ELSE intent.amount

\* C1: when build() has resolved a list of at most 16 simple intents and
\* returned, the group has one member per intent, and member i is the
\* transaction of the i-th intent added (its kind, sender, receiver, amount and
\* note) paired with that intent's signer; a list of 1..16 simple intents never
\* fails for lack of room.
C1_SimpleIntentsInOrder ==
    (Resolving /\ AllSimple /\ Len(txns) <= MAX_TRANSACTION_GROUP_SIZE) =>
        /\ last.err.kind \notin {"Capacity"}
        /\ Returned =>
              /\ Len(Group) = Len(txns)
              /\ \A i \in 1..Len(txns) :
                    /\ Group[i].txn.type = WantedType(txns[i])
                    /\ Group[i].txn.from = txns[i].sender
                    /\ Group[i].txn.to = WantedReceiver(txns[i])
                    /\ Group[i].txn.amount = WantedAmount(txns[i])
                    /\ Group[i].txn.note = txns[i].note
                    /\ Group[i].signer = WantedSigner(txns[i])

\* C1 witness: a build of two simple intents of different kinds and signers
C1_Witness ==
    /\ Returned /\ last.resolved
    /\ txns = <<AssetOptOut, WindowPayment>>
    /\ Len(Group) = 2
    /\ Group[2].txn.amount = 2

\* what identifies a member of the group: its type, sender and ABI method
Label(txn) == <<txn.type, txn.from, txn.method>>

RECURSIVE WantedLabels(_)
\* The members an intent asks for, in order: for a method call, those of each
\* argument in turn (none for a value, the transaction itself for a transaction
\* argument, all of a nested call's), then the call's own transaction.
WantedLabels(intent) ==
    IF intent.type = "atc"
    THEN [i \in 1..Len(intent.atc.transactions) |-> Label(intent.atc.transactions[i].txn)]
    ELSE IF intent.type # "methodCall"
    THEN <<<<WantedType(intent), intent.sender, None>>>>
    ELSE LET RECURSIVE OfArgs(_)
             OfArgs(i) ==
                 IF i > Len(intent.args) THEN <<>>
                 ELSE (CASE intent.args[i].k = "txn" -> <<Label(intent.args[i].txn)>>
                         [] intent.args[i].k = "tws" -> <<Label(intent.args[i].tws.txn)>>
                         [] intent.args[i].k = "call" -> WantedLabels(intent.args[i].call)
                         [] OTHER -> <<>>) \o OfArgs(i + 1)
         IN  OfArgs(1) \o <<<<"appl", intent.sender, intent.method>>>>

RECURSIVE WantedGroupLabels(_)
WantedGroupLabels(i) ==
    IF i > Len(txns) THEN <<>> ELSE WantedLabels(txns[i]) \o WantedGroupLabels(i + 1)

GroupLabels == [i \in 1..Len(Group) |-> Label(Group[i].txn)]

\* C2: when build() has resolved the intents and returned, the group is, intent
\* by intent, the transactions of each argument of a method call in argument
\* order (depth first), followed by the call's own transaction; the call whose
\* argument is a call whose argument is a bare payment gives exactly the
\* payment, the inner call, the outer call.
C2_DepthFirstArgumentOrder ==
    (Resolving /\ Returned) =>
        /\ GroupLabels = WantedGroupLabels(1)
        /\ txns = <<NestedTxnArgCall>> =>
              /\ Len(Group) = 3
              /\ Group[1].txn = [ArgPayment EXCEPT !.group = "group"]
              /\ Group[2].txn.method = "txnArg"
              /\ Group[3].txn.method = "nestedTxnArg"

\* C2 witness: the doubly nested call has been built
C2_Witness ==
    /\ Resolving /\ Returned
    /\ txns = <<NestedTxnArgCall>>
    /\ Len(Group) = 3

\* the intents that resolve without a fault of their own
Faultless == \A i \in 1..Len(txns) : txns[i] \in BulkIntents \cup {WideCall}

\* C3: when the pending intents resolve to more than 16 transactions, a build
\* that resolves them fails, with the capacity error when nothing else is wrong
\* with them, and leaves no transaction in the composer's group.
C3_CapacityNoPartialGroup ==
    (Resolving /\ Len(WantedGroupLabels(1)) > MAX_TRANSACTION_GROUP_SIZE) =>
        /\ ~Returned
        /\ Faultless => last.err.kind = "Capacity"
        /\ Group = <<>>

\* C3 witness: the capacity error has been thrown and the group holds the
\* first 16 of the resolved transactions
C3_Witness ==
    /\ Called /\ last.err.kind = "Capacity"
    /\ Len(txns) = MAX_TRANSACTION_GROUP_SIZE + 1
    /\ Len(Group) = MAX_TRANSACTION_GROUP_SIZE
    /\ atc.status = "BUILDING"

\* C4: a build() step taken while the group is Built (so every build() that
\* follows a build() that returned, with no rebuild() between) returns without
\* an error, leaves the group exactly as it was (same transactions, order and
\* signers) and calls neither getSuggestedParams nor getSigner.
C4_BuildIsIdempotent ==
    [][(atc.status = "BUILT" /\ last'.op = "build") =>
          /\ atc' = atc
          /\ last'.err = NoError
          /\ ~last'.resolved
          /\ last'.nParams = 0
          /\ last'.nSigner = 0]_vars

\* C4 witness: build() has returned the snapshot of round 0 after the network
\* moved on and the signer of its sender was replaced
C4_Witness ==
    /\ last.op = "build" /\ ~last.resolved /\ last.err = NoError
    /\ atc.status = "BUILT"
    /\ txns = <<WindowPayment>>
    /\ network.firstRound > 0 /\ Group[1].txn.firstRound = 0
    /\ registry["B"] = "signerB2" /\ Group[1].signer = "signerB"

\* the first valid round an intent asks for
WantedFirstRound(intent) ==
    IF Truthy(intent.firstValidRound) THEN intent.firstValidRound ELSE network.firstRound

\* the number of intents that leave the signer to the registry
RegistryLookups == Cardinality({i \in 1..Len(txns) : txns[i].signer = NoSigner})

\* C5: rebuild() always resolves the whole pending list again, calling
\* getSuggestedParams once and getSigner for every intent without a signer of
\* its own; when it returns, the group is a Built group of exactly the
\* transactions the list asks for, in order, with the first valid round the
\* network reports now and the signers registered now; when it fails, nothing
\* of an earlier Built group is left.
C5_RebuildIsFresh ==
    last.op = "rebuild" =>
        /\ last.resolved
        /\ last.nParams = 1
        /\ ~Returned => atc.status = "BUILDING"
        /\ Returned =>
              /\ atc.status = "BUILT"
              /\ GroupLabels = WantedGroupLabels(1)
              /\ AllSimple =>
                    /\ last.nSigner = RegistryLookups
                    /\ \A i \in 1..Len(txns) :
                          /\ Group[i].signer = WantedSigner(txns[i])
                          /\ Group[i].txn.firstRound = WantedFirstRound(txns[i])

\* C5 witness: rebuild() has returned a group with the round and the signer
\* that changed after the composer was set up
C5_Witness ==
    /\ last.op = "rebuild" /\ Returned
    /\ txns = <<WindowPayment>>
    /\ Group[1].txn.firstRound = 1
    /\ Group[1].signer = "signerB2"

\* C6: when execute() has handed the group to sendAtomicTransactionComposer,
\* the rounds to wait are the caller's maxRoundsToWaitForConfirmation when one
\* was given (0 included), and otherwise the greatest last valid round of the
\* group minus the first valid round the network reports plus 1; for the
\* 5-round payment followed by the method call with a payment argument that is
\* at least the method call transaction's last valid round minus that first
\* valid round plus 1.
C6_WaitRounds ==
    (last.op = "execute" /\ last.submitted) =>
        /\ last.budget # Undef => last.waitRounds = last.budget
        /\ last.budget = Undef =>
              \E m \in 1..Len(Group) :
                  /\ \A j \in 1..Len(Group) : Group[j].txn.lastRound <= Group[m].txn.lastRound
                  /\ last.waitRounds = Group[m].txn.lastRound - network.firstRound + 1
        /\ (last.budget = Undef /\ last.resolved /\ txns = <<WindowPayment, TxnArgCall>>) =>
              /\ Group[1].txn.lastRound = Group[1].txn.firstRound + 5
              /\ Group[3].txn.method = "txnArg"
              /\ last.waitRounds >= Group[3].txn.lastRound - network.firstRound + 1

\* C6 witness: the scenario has been executed without a budget
C6_Witness ==
    /\ last.op = "execute" /\ last.submitted /\ last.resolved
    /\ last.budget = Undef
    /\ txns = <<WindowPayment, TxnArgCall>>
    /\ last.waitRounds = 11 - network.firstRound

RECURSIVE DeepConflict(_)
\* the intent, or a method call nested in its arguments, sets both staticFee
\* and extraFee
DeepConflict(intent) ==
    \/ intent.staticFee # Undef /\ intent.extraFee # Undef
    \/ /\ intent.type = "methodCall"
       /\ \E i \in 1..Len(intent.args) :
             intent.args[i].k = "call" /\ DeepConflict(intent.args[i].call)

SomeConflict == \E i \in 1..Len(txns) : DeepConflict(txns[i])

\* C7: when a build resolves a pending list in which some intent, or a method
\* call nested in one, sets both staticFee and extraFee (zero included), the
\* call fails and the group is not built; the error is the configuration error
\* whenever the first intent is the one at fault.
C7_StaticAndExtraFeeExclusive ==
    (Resolving /\ SomeConflict) =>
        /\ ~Returned
        /\ atc.status = "BUILDING"
        /\ DeepConflict(txns[1]) => last.err.kind = "FeeConflict"

\* C7 witness: the build of a call whose nested call sets staticFee to 1000
\* and extraFee to zero has failed with the configuration error
C7_Witness ==
    /\ Resolving
    /\ txns = <<NestedConflictCall>>
    /\ last.err.kind = "FeeConflict"

HasTeal(intent) == intent.approvalProgram.kind = "teal" \/ intent.clearProgram.kind = "teal"

RECURSIVE WithNested(_)
WithNested(intent) ==
    {intent} \cup
    (IF intent.type = "methodCall"
     THEN UNION {WithNested(intent.args[k].call) :
                    k \in {j \in 1..Len(intent.args) : intent.args[j].k = "call"}}
     ELSE {})

\* the pending intents, nested method calls included
PendingIntents == UNION {WithNested(txns[i]) : i \in 1..Len(txns)}

\* C9: a build of simple intents returns only when every transaction whose
\* intent sets maxFee has a fee of at most that ceiling, so a fee equal to the
\* ceiling passes; a static fee above the ceiling always fails the build; and
\* the fee-ceiling error carries the fee of the transaction, which is strictly
\* greater than the ceiling it carries, the maxFee of a pending intent.
C9_FeeCeiling ==
    Resolving =>
        /\ (Returned /\ AllSimple) =>
              \A i \in 1..Len(txns) :
                  txns[i].maxFee # Undef => Group[i].txn.fee <= txns[i].maxFee
        /\ (\E i \in 1..Len(txns) :
                /\ txns[i].staticFee # Undef /\ txns[i].maxFee # Undef
                /\ txns[i].staticFee > txns[i].maxFee) => ~Returned
        /\ last.err.kind = "MaxFee" =>
              /\ last.err.fee > last.err.maxFee
              /\ \E q \in PendingIntents :
                    /\ q.maxFee = last.err.maxFee
                    /\ q.staticFee # Undef => last.err.fee = q.staticFee
                    /\ q.extraFee # Undef => last.err.fee >= q.extraFee
        /\ txns = <<WindowPayment>> =>
              /\ Returned <=> network.fee * 260 + 500 <= 1500
              /\ (Returned /\ network.fee = 0) => Group[1].txn.fee = 1500
        /\ txns = <<StaticPayment>> =>
              last.err = [kind |-> "MaxFee", fee |-> 2000, maxFee |-> 1999]

\* C9 witness: the payment with extra fee 500 and ceiling 1500 has been built
\* at a rate that makes its fee 1800
C9_Witness ==
    /\ Resolving
    /\ txns = <<WindowPayment>>
    /\ last.err = [kind |-> "MaxFee", fee |-> 1800, maxFee |-> 1500]

\* C9, the fee equal to the ceiling: the same payment built at rate 0
C9_WitnessEqual ==
    /\ Resolving /\ Returned
    /\ txns = <<WindowPayment>>
    /\ Group[1].txn.fee = txns[1].maxFee

\* C10 as stated: every transaction built from a simple intent without a
\* static fee is flat-fee and its fee is the greater of estimated size times
\* fee per byte and the minimum fee, plus the extra fee.
C10_FeeFlooredAtMinimum ==
    (Resolving /\ Returned /\ AllSimple) =>
        \A i \in 1..Len(txns) :
            txns[i].staticFee = Undef =>
                /\ Group[i].txn.flatFee
                /\ Group[i].txn.fee =
                      Max(EstimateSize(Group[i].txn) * network.fee, ALGORAND_MIN_TX_FEE)
                      + (IF txns[i].extraFee # Undef THEN txns[i].extraFee ELSE 0)

\* C10 witness: a 250-byte payment built at 1 microAlgo per byte has a fee of
\* 250, below the minimum fee
C10_Witness ==
    /\ Resolving /\ Returned
    /\ txns = <<PlainPayment>>
    /\ network.fee = 1
    /\ Group[1].txn.fee = 250

\* C11: every transaction built from a simple intent has as first valid round
\* the intent's firstValidRound when it gives one and the round the network
\* reports otherwise, and as last valid round the intent's lastValidRound when
\* it gives one and otherwise the first valid round plus the intent's
\* validityWindow (zero included) or, without one, the composer's default
\* window, which is 10 unless the constructor was given another.
C11_ValidityRounds ==
    (Resolving /\ Returned /\ AllSimple) =>
        /\ defaultValidityWindow \in {DEFAULT_VALIDITY_WINDOW, ConfiguredWindow}
        /\ \A i \in 1..Len(txns) :
              /\ Group[i].txn.firstRound =
                    (IF txns[i].firstValidRound # Undef THEN txns[i].firstValidRound
                     ELSE network.firstRound)
              /\ Group[i].txn.lastRound =
                    (IF txns[i].lastValidRound # Undef THEN txns[i].lastValidRound
                     ELSE Group[i].txn.firstRound
                          + (IF txns[i].validityWindow # Undef THEN txns[i].validityWindow
                             ELSE defaultValidityWindow))

\* C11 witness: the payment that asks for first valid round 0 has been built
\* in round 1 with first valid round 1
C11_Witness ==
    /\ Resolving /\ Returned
    /\ txns = <<ZeroRoundPayment>>
    /\ network.firstRound = 1
    /\ Group[1].txn.firstRound = 1
    /\ Group[1].txn.lastRound = 1

\* C12: on LocalNet, with no window given to the constructor, every
\* transaction built from a simple intent with neither lastValidRound nor
\* validityWindow is valid up to its first valid round plus 1000.
C12_LocalNetWindow ==
    (/\ Resolving /\ Returned /\ AllSimple
     /\ network.genesisID = LocalNet
     /\ defaultValidityWindow = DEFAULT_VALIDITY_WINDOW) =>
        \A i \in 1..Len(txns) :
            (txns[i].lastValidRound = Undef /\ txns[i].validityWindow = Undef) =>
                Group[i].txn.lastRound = Group[i].txn.firstRound + 1000

\* C12 witness: a plain payment built on LocalNet is valid for 10 rounds
C12_Witness ==
    /\ Resolving /\ Returned
    /\ txns = <<PlainPayment>>
    /\ network.genesisID = LocalNet
    /\ Group[1].txn.lastRound = Group[1].txn.firstRound + DEFAULT_VALIDITY_WINDOW

\* the common build step has set the rounds and the fee of the i-th member,
\* built from an intent that names neither round
CommonStepApplied(i) ==
    LET t == Group[i].txn
    IN  /\ t.flatFee
        /\ t.fee = (IF txns[i].staticFee # Undef THEN txns[i].staticFee
                    ELSE ComputedFee(txns[i], t, SuggestedParams(network.fee, network.firstRound)))
        /\ (txns[i].firstValidRound = Undef /\ txns[i].lastValidRound = Undef) =>
              /\ t.firstRound = network.firstRound
              /\ t.lastRound = t.firstRound
                                 + (IF txns[i].validityWindow # Undef THEN txns[i].validityWindow
                                    ELSE defaultValidityWindow)

\* the i-th member is a transfer of zero units of the intent's asset from the
\* intent's sender to itself, closing the holding to closeTo
SelfTransfer(i, closeTo) ==
    LET t == Group[i].txn
    IN  /\ t.type = "axfer"
        /\ t.from = txns[i].sender /\ t.to = txns[i].sender
        /\ t.amount = 0
        /\ t.assetIndex = txns[i].assetId
        /\ t.closeRemainderTo = closeTo

\* C13: an asset opt-in is built as a transfer of zero units of the asset
\* from the sender to itself, an asset opt-out as the same transfer closing
\* the holding to the asset's creator, and both pass through the common build
\* step (flat fee, validity rounds).
C13_OptInOptOut ==
    (Resolving /\ Returned /\ AllSimple) =>
        \A i \in 1..Len(txns) :
            /\ txns[i].type = "assetOptIn" =>
                  SelfTransfer(i, None) /\ CommonStepApplied(i)
            /\ txns[i].type = "assetOptOut" =>
                  SelfTransfer(i, txns[i].creator) /\ CommonStepApplied(i)

\* C13 witness: an opt-out has been built into a closing self-transfer
C13_Witness ==
    /\ Resolving /\ Returned
    /\ \E i \in 1..Len(txns) :
          /\ txns[i] = AssetOptOut
          /\ Group[i].txn.closeRemainderTo = "A"
          /\ Group[i].txn.to = "B"

RECURSIVE WantedMethods(_)
\* The ABI method wanted at each index of the group, from the i-th intent on:
\* the method of a method call added with addMethodCall or nested in one, None
\* for every other transaction, and "Any" for the members of an added sub-group.
WantedMethods(i) ==
    IF i > Len(txns) THEN <<>>
    ELSE LET labels == WantedLabels(txns[i])
         IN  [j \in 1..Len(labels) |->
                 IF txns[i].type = "atc" THEN "Any" ELSE labels[j][3]]
             \o WantedMethods(i + 1)

\* the methods the group reports return values for, in group order
RECURSIVE ReturnOrder(_)
ReturnOrder(i) ==
    IF i > Len(Group) THEN <<>>
    ELSE (IF MapGet(atc.methodCalls, i) # None THEN <<MapGet(atc.methodCalls, i)>>
          ELSE <<>>) \o ReturnOrder(i + 1)

\* C14: when build() has resolved the intents and returned, the group's
\* index -> method map holds, for every transaction of a method call added
\* with addMethodCall or nested as an argument of one, that call's method at
\* the transaction's index, and no entry for any other transaction of a simple
\* intent or transaction argument; the call with two nested txnArg calls
\* reports three returns: txnArg, txnArg, doubleNestedTxnArg.
C14_MethodsAtTheirIndex ==
    (Resolving /\ Returned) =>
        /\ \A p \in atc.methodCalls : p[1] \in 1..Len(Group)
        /\ \A i \in 1..Len(Group) :
              WantedMethods(1)[i] # "Any" =>
                  MapGet(atc.methodCalls, i) = WantedMethods(1)[i]
        /\ txns = <<DoubleNestedTxnArgCall>> =>
              /\ atc.methodCalls = {<<2, "txnArg">>, <<4, "txnArg">>,
                                     <<5, "doubleNestedTxnArg">>}
              /\ ReturnOrder(1) = <<"txnArg", "txnArg", "doubleNestedTxnArg">>

\* C14 witness: the call with two nested calls has been built into five
\* transactions
C14_Witness ==
    /\ Resolving /\ Returned
    /\ txns = <<DoubleNestedTxnArgCall>>
    /\ Len(Group) = 5
    /\ Cardinality(atc.methodCalls) = 3

\* C15: whatever calls of compileTeal a caller makes on one composer, overlapping
\* ones included, the compiler is invoked at most once and onCompilationResult
\* fires at most once for each source text, every call that returned was given
\* the stored result of its text, and getCompilationResult returns that result
\* for a compiled text and nothing for a text never compiled.
C15_CompiledOnce ==
    /\ \A t \in Texts : compiles.invoked[t] <= 1 /\ compiles.fired[t] <= 1
    /\ \A c \in Calls :
          compiles.pc[c] = "done" =>
              /\ compiles.text[c] \in compilationResults
              /\ compiles.result[c] = Compiled(compiles.text[c])
    /\ compiles.read.text # None =>
          compiles.read.result =
              (IF \E c \in Calls : compiles.pc[c] = "done"
                                     /\ compiles.text[c] = compiles.read.text
               THEN Compiled(compiles.read.text) ELSE NoProgram)

\* C15 witness: two calls on the same text overlapped, and both compiled it
\* and reported it
C15_Witness ==
    /\ compiles.pc[1] = "done" /\ compiles.pc[2] = "done"
    /\ compiles.text[1] = "approval" /\ compiles.text[2] = "approval"
    /\ compiles.invoked["approval"] = 2
    /\ compiles.fired["approval"] = 2

\* the i-th intent is an application call that creates an application and
\* lacks the approval program or the clear program
CreationLacksProgram(i) ==
    /\ txns[i].type = "appCall"
    /\ txns[i].appId \in {Undef, 0}
    /\ (txns[i].approvalProgram = NoProgram \/ txns[i].clearProgram = NoProgram)

\* C16: when a build resolves pending intents among which is an application
\* call with no application id (or id 0) that lacks the approval or the clear
\* program, the build fails and the group holds no transaction; it fails with
\* the missing-programs error when that intent is the first one.
C16_CreationNeedsBothPrograms ==
    (Resolving /\ \E i \in 1..Len(txns) : CreationLacksProgram(i)) =>
        /\ ~Returned
        /\ atc.status = "BUILDING"
        /\ Group = <<>>
        /\ CreationLacksProgram(1) => last.err.kind = "AppCreateProgramsRequired"

\* C16 witness: a build of a creation that has only its approval program has
\* failed for the missing program
C16_Witness ==
    /\ Resolving
    /\ txns = <<ApprovalOnlyCreate>>
    /\ last.err.kind = "AppCreateProgramsRequired"
    /\ Group = <<>>

\* C17: when execute() has returned or thrown, it has handed the group to the
\* submission exactly when its build returned; the group it handed over is
\* Built and, when this call resolved the intents, holds every transaction the
\* pending list asks for; a failure of the build is the error of the call and
\* nothing was submitted.
C17_SubmitsOnlyAWholeGroup ==
    last.op = "execute" =>
        /\ last.submitted <=> last.err = NoError
        /\ last.submitted =>
              /\ atc.status = "BUILT"
              /\ last.resolved => GroupLabels = WantedGroupLabels(1)
        /\ last.err # NoError => last.resolved /\ ~last.submitted

\* C17 witness: execute() has failed for capacity with 16 of the 17 resolved
\* transactions in the group, and nothing was submitted
C17_Witness ==
    /\ last.op = "execute" /\ last.resolved
    /\ last.err.kind = "Capacity"
    /\ Len(Group) = MAX_TRANSACTION_GROUP_SIZE
    /\ atc.status = "BUILDING"
    /\ ~last.submitted

\* C18: the composer's group never holds more than 16 transactions.
C18_GroupAtMostSixteen == Len(Group) <= MAX_TRANSACTION_GROUP_SIZE

\* C18 witness: a group of exactly 16 transactions has been built from 16
\* intents
C18_Witness ==
    /\ atc.status = "BUILT"
    /\ Len(txns) = MAX_TRANSACTION_GROUP_SIZE
    /\ Len(Group) = MAX_TRANSACTION_GROUP_SIZE

\* C19: while the group is Built, every step that is not a rebuild() (an add
\* operation, a build(), an execute(), a change of the network or of the
\* signers) leaves the group as it is, and an execute() submits it.
C19_RebuildOnlyWayOut ==
    [][(atc.status = "BUILT" /\ last'.op # "rebuild") =>
          /\ atc' = atc
          /\ last'.op = "execute" => last'.submitted /\ ~last'.resolved]_vars

\* C19 witness: execute() has submitted the one-member group built before a
\* second intent was added
C19_Witness ==
    /\ last.op = "execute" /\ last.submitted /\ ~last.resolved
    /\ atc.status = "BUILT"
    /\ Len(txns) = 2
    /\ Len(Group) = 1

\* C20: build(), rebuild() and execute() leave the pending list as it is,
\* whether they return or throw; every add operation (a step that is no such
\* call and changes neither the network nor the signers) appends exactly one
\* intent at the end of the list and leaves the earlier intents and the group
\* as they are.
C20_PendingListOnlyGrows ==
    [][/\ last'.op \in {"build", "rebuild", "execute"} => txns' = txns
       /\ (last'.op = "none" /\ network' = network /\ registry' = registry) =>
             /\ Len(txns') = Len(txns) + 1
             /\ SubSeq(txns', 1, Len(txns)) = txns
             /\ atc' = atc]_vars

\* C20 witness: an intent has been added after a build that failed on the
\* list's first intent, and both are pending
C20_Witness ==
    /\ last.op = "none"
    /\ txns = <<ConflictPayment, WindowPayment>>
    /\ atc.status = "BUILDING"
    /\ compilationResults = {}
    /\ network.firstRound = 0

\* the id of the i-th member as build() looked it up, before the group link
\* was computed
MemberId(i) == TxID([Group[i].txn EXCEPT !.group = None])

\* no sub-group added with addAtc is pending
NoAtcIntent == \A i \in 1..Len(txns) : txns[i].type # "atc"

\* C21: when rebuild() has returned a group built from intents other than
\* sub-groups, the method map of the composer holds the method of every
\* method-call transaction of the group under that transaction's id, and holds
\* no entry under any other id.
C21_MethodMapIsFresh ==
    (last.op = "rebuild" /\ Returned /\ NoAtcIntent) =>
        /\ \A i \in 1..Len(Group) :
              WantedMethods(1)[i] # None =>
                  <<MemberId(i), WantedMethods(1)[i]>> \in txnMethodMap
        /\ \A p \in txnMethodMap :
              \E i \in 1..Len(Group) : p[1] = MemberId(i) /\ WantedMethods(1)[i] # None

\* C21 witness: rebuild() has returned the doMath call built in round 1, and
\* the map still holds the id of the transaction built in round 0
C21_Witness ==
    /\ last.op = "rebuild" /\ Returned
    /\ txns = <<DoMathCall>>
    /\ Group[1].txn.firstRound = 1
    /\ Cardinality(txnMethodMap) = 2
    /\ \E p \in txnMethodMap : p[1].firstRound = 0

\* the errors of the collaborators: the parameter source, the signer registry,
\* the compiler
ResolutionErrors == {"ParamsFetch", "SignerLookup", "Compile"}

\* the source texts among the programs of the pending intents
TealTexts ==
    {txns[i].approvalProgram.src :
        i \in {j \in 1..Len(txns) : txns[j].approvalProgram.kind = "teal"}}
    \cup {txns[i].clearProgram.src :
        i \in {j \in 1..Len(txns) : txns[j].clearProgram.kind = "teal"}}

\* C22: when a build has failed with an error of the parameter source, of the
\* signer registry or of the compiler, the parameter source was asked once, the
\* registry at most once for each intent that leaves its signer to it, the
\* compiler at most once for each source text, nothing was submitted, and the
\* composer is Building with an empty group; and whenever a build resolves the
\* intents and returns, the group is exactly the transactions the pending list
\* asks for, each once and in order.
C22_ResolutionErrorsPropagate ==
    /\ (Resolving /\ last.err.kind \in ResolutionErrors) =>
          /\ ~last.submitted
          /\ last.nParams = 1
          /\ last.err.kind = "ParamsFetch" => last.nSigner = 0 /\ last.nCompile = 0
          /\ AllSimple => last.nSigner <= RegistryLookups
          /\ last.nCompile <= Cardinality(TealTexts)
          /\ atc.status = "BUILDING"
          /\ Group = <<>>
    /\ (Resolving /\ Returned) => GroupLabels = WantedGroupLabels(1)

\* C22 witness: a build has failed on the parameter source while the group
\* holds the 16 transactions an earlier build left in it
C22_Witness ==
    /\ Resolving
    /\ last.err.kind = "ParamsFetch"
    /\ network.fault = "params"
    /\ atc.status = "BUILDING"
    /\ Len(Group) = MAX_TRANSACTION_GROUP_SIZE

\* what stands for "no method call" where a method call is wanted
NoIntent == Params("none", None)

RECURSIVE WantedCalls(_)
\* For each member an intent asks for (see WantedLabels), the method call
\* whose own transaction it is, NoIntent for every other member.
WantedCalls(intent) ==
    IF intent.type = "atc"
    THEN [i \in 1..Len(intent.atc.transactions) |-> NoIntent]
    ELSE IF intent.type # "methodCall"
    THEN <<NoIntent>>
    ELSE LET RECURSIVE OfArgs(_)
             OfArgs(i) ==
                 IF i > Len(intent.args) THEN <<>>
                 ELSE (CASE intent.args[i].k \in {"txn", "tws"} -> <<NoIntent>>
                         [] intent.args[i].k = "call" -> WantedCalls(intent.args[i].call)
                         [] OTHER -> <<>>) \o OfArgs(i + 1)
         IN  OfArgs(1) \o <<intent>>

RECURSIVE WantedGroupCalls(_)
WantedGroupCalls(i) ==
    IF i > Len(txns) THEN <<>> ELSE WantedCalls(txns[i]) \o WantedGroupCalls(i + 1)

\* the intent, or a method call nested in its arguments, sets a static fee
\* above its fee ceiling
RECURSIVE DeepOverCeiling(_)
DeepOverCeiling(intent) ==
    \/ /\ intent.staticFee # Undef /\ intent.maxFee # Undef
       /\ intent.staticFee > intent.maxFee
    \/ /\ intent.type = "methodCall"
       /\ \E i \in 1..Len(intent.args) :
             intent.args[i].k = "call" /\ DeepOverCeiling(intent.args[i].call)

\* the transaction t carries what the common build step gives a transaction
\* of the intent q
CarriesCommonParameters(q, t) ==
    /\ t.lease = q.lease /\ t.rekeyTo = q.rekeyTo /\ t.note = q.note
    /\ t.firstRound = WantedFirstRound(q)
    /\ t.lastRound = (IF Truthy(q.lastValidRound) THEN q.lastValidRound
                      ELSE t.firstRound + (IF q.validityWindow # Undef THEN q.validityWindow
                                           ELSE defaultValidityWindow))
    /\ t.flatFee
    /\ t.fee = (IF q.staticFee # Undef THEN q.staticFee
                ELSE (IF EstimateSize(t) * network.fee # 0
                      THEN EstimateSize(t) * network.fee ELSE ALGORAND_MIN_TX_FEE)
                     + (IF q.extraFee # Undef THEN q.extraFee ELSE 0))
    /\ q.maxFee # Undef => t.fee <= q.maxFee

\* C23: a build that resolves method calls fails when a call, top-level or
\* nested, sets both staticFee and extraFee or a static fee above its maxFee;
\* and when it returns, the own transaction of every method call, top-level or
\* nested, carries the lease, rekey, note, validity rounds and fee that the
\* common build step derives from that call's own parameters.
C23_MethodCallsTakeCommonStep ==
    (Resolving /\ NoAtcIntent) =>
        /\ (\E i \in 1..Len(txns) : DeepConflict(txns[i]) \/ DeepOverCeiling(txns[i])) =>
              ~Returned
        /\ Returned =>
              \A i \in 1..Len(Group) :
                  WantedGroupCalls(1)[i].type = "methodCall" =>
                      CarriesCommonParameters(WantedGroupCalls(1)[i], Group[i].txn)

\* C23 witness: the nested call with parameters of its own has been built at
\* a fee of 1 per byte, inner and outer transaction each with its own
\* parameters
C23_Witness ==
    /\ Resolving /\ Returned
    /\ txns = <<NestedParametrisedCall>>
    /\ Group[1].txn.note = "inner" /\ Group[1].txn.fee = 2000
    /\ Group[1].txn.lastRound = 5
    /\ Group[2].txn.note = "outer" /\ Group[2].txn.fee = 310 + 500

RECURSIVE WantedAbiValue(_)
\* a boolean, an integer, a string, a byte sequence, or an array (empty
\* included) of such values
WantedAbiValue(arg) ==
    /\ arg.k = "abi"
    /\ \/ arg.js \in {"boolean", "number", "bigint", "string", "Uint8Array"}
       \/ /\ arg.js = "array"
          /\ \A i \in 1..Len(arg.elems) : WantedAbiValue(arg.elems[i])

\* C24: when a build has resolved a list whose first intent is a method call
\* given plain values only, each argument was classified as an ABI value
\* exactly when it is a boolean, an integer, a string, a byte sequence or an
\* array of such values; and when all of them are, none was taken for a
\* transaction (the build did not fail on reading one as a transaction) and
\* the call's transaction carries every argument.
C24_StructuralClassification ==
    (/\ Resolving /\ Len(txns) >= 1 /\ txns[1].type = "methodCall"
     /\ \A i \in 1..Len(txns[1].args) : txns[1].args[i].k = "abi") =>
        /\ \A i \in 1..Len(txns[1].args) :
              isAbiValue(txns[1].args[i]) <=> WantedAbiValue(txns[1].args[i])
        /\ (\A i \in 1..Len(txns[1].args) : WantedAbiValue(txns[1].args[i])) =>
              /\ last.err.kind # "TypeError"
              /\ Returned => Group[1].txn.nArgs = Len(txns[1].args)

\* C24 witness: the build of the call given a Uint8Array has failed on
\* reading the argument as a transaction
C24_Witness ==
    /\ Resolving
    /\ txns = <<BytesCall>>
    /\ ~isAbiValue(BytesCall.args[1])
    /\ last.err.kind = "TypeError"

\* the transaction arguments of a method call none of whose arguments is a
\* method call, in argument order
FlatTxnArgs(q) == SelectSeq(q.args, LAMBDA a : a.k \in {"tws", "txn"})

\* the method call has no method call among its arguments
IsFlatCall(q) ==
    q.type = "methodCall" /\ \A i \in 1..Len(q.args) : q.args[i].k # "call"

\* the signer wanted for a transaction argument a of the method call q
WantedArgSigner(q, a) ==
    IF a.k = "tws" THEN a.tws.signer
    ELSE IF q.signer # NoSigner THEN q.signer.fn
    ELSE registry[a.txn.from]

\* C25: when build() has returned the group of a single method call without
\* nested calls, each transaction argument is a member as it was given; one
\* that came with a signer has kept it, a bare one has the call's signer when
\* the call has one and otherwise the signer registered for the argument's own
\* sender; and the registry was consulted once for every bare argument and
\* once for the call when the call has no signer, and not at all when it has.
C25_ArgumentSigners ==
    (Resolving /\ Returned /\ Len(txns) = 1 /\ IsFlatCall(txns[1])) =>
        LET q == txns[1]
            args == FlatTxnArgs(q)
            bare == {j \in 1..Len(args) : args[j].k = "txn"}
        IN  /\ Len(Group) = Len(args) + 1
            /\ \A j \in 1..Len(args) :
                  /\ Group[j].signer = WantedArgSigner(q, args[j])
                  /\ [Group[j].txn EXCEPT !.group = None]
                        = (IF args[j].k = "tws" THEN args[j].tws.txn ELSE args[j].txn)
            /\ last.nSigner = (IF q.signer = NoSigner THEN Cardinality(bare) + 1 ELSE 0)

\* C25 witness: the call of A without a signer has been built after the signer
\* of B was replaced: the argument that came with a signer kept it, the bare
\* payment of B got B's new signer
C25_Witness ==
    /\ Resolving /\ Returned
    /\ txns = <<TwoTxnArgsCall>>
    /\ Group[1].signer = "signerT"
    /\ Group[2].signer = "signerB2"
    /\ Group[3].signer = "signerA"
    /\ last.nSigner = 2

\* the program a transaction carries for a program given by an intent: the
\* bytes as given, the compilation of a source text
WantedProgram(program) ==
    IF program.kind = "teal" THEN Compiled(program.src) ELSE program

\* C26: when build() has returned a group of simple intents, the transaction
\* of every application call that gives programs carries the intent's approval
\* program as its approval program and the intent's clear program as its clear
\* program, compiled when given as text; so the two differ on the transaction
\* when they differ in the intent, and a clear program given as text has a
\* stored compilation result.
C26_ProgramsAsGiven ==
    (Resolving /\ Returned /\ AllSimple) =>
        \A i \in 1..Len(txns) :
            (/\ txns[i].type = "appCall"
             /\ txns[i].approvalProgram # NoProgram
             /\ txns[i].clearProgram # NoProgram) =>
                /\ Group[i].txn.approvalProgram = WantedProgram(txns[i].approvalProgram)
                /\ Group[i].txn.clearProgram = WantedProgram(txns[i].clearProgram)
                /\ txns[i].approvalProgram # txns[i].clearProgram =>
                      Group[i].txn.clearProgram # Group[i].txn.approvalProgram
                /\ txns[i].clearProgram.kind = "teal" =>
                      /\ txns[i].clearProgram.src \in compilationResults
                      /\ GetCompilationResult(txns[i].clearProgram.src)
                            = Compiled(txns[i].clearProgram.src)

\* C26 witness: the application creation has been built with the compiled
\* approval program as its clear program, and the clear program's text was
\* never compiled
C26_Witness ==
    /\ Resolving /\ Returned
    /\ txns = <<AppCreate>>
    /\ Group[1].txn.approvalProgram = Compiled("approval")
    /\ Group[1].txn.clearProgram = Compiled("approval")
    /\ compilationResults = {"approval"}

\* C27: when build() has returned a group of simple intents, the transaction
\* of every application call without an application id, or with id 0, is the
\* generic call transaction with application index 0: it carries the schema
\* count the intent gives and none when the intent gives none, where the
\* creation transaction would carry 0.
C27_SecondConstructionRetained ==
    (Resolving /\ Returned /\ AllSimple) =>
        \A i \in 1..Len(txns) :
            (txns[i].type = "appCall" /\ txns[i].appId \in {Undef, 0}) =>
                /\ Group[i].txn.type = "appl"
                /\ Group[i].txn.appIndex = 0
                /\ Group[i].txn.numLocalInts = txns[i].schema
                /\ txns[i].schema = Undef => Group[i].txn.numLocalInts # 0

\* C27 witness: the creation without a schema has been built into a call
\* transaction with application index 0 and no local schema count
C27_Witness ==
    /\ Resolving /\ Returned
    /\ \E i \in 1..Len(txns) :
          /\ txns[i] = AppCreate
          /\ Group[i].txn.appIndex = 0
          /\ Group[i].txn.numLocalInts = Undef

\* every call that overlapped with another has finished
OverlapOver ==
    /\ \E c \in Builders : builds.overlapped[c]
    /\ \A c \in Builders : builds.overlapped[c] => builds.pc[c] = "done"

\* C28: when build() calls that overlapped on a composer have all finished,
\* and a build of the pending intents on its own would return, the group
\* holds the transactions of each pending intent once and in order, and every
\* one of the calls has returned that group.
C28_OverlappingBuilds ==
    (OverlapOver /\ BuildFrom(NewAtc).err = NoError) =>
        /\ atc.status = "BUILT"
        /\ GroupLabels = WantedGroupLabels(1)
        /\ \A c \in Builders :
              builds.overlapped[c] =>
                  /\ builds.err[c] = NoError
                  /\ builds.group[c] = Group

\* C28 witness: of two calls that overlapped, the first to resume has built
\* the group of the two pending intents and the second has thrown on adding
\* to that group
C28_Witness ==
    /\ OverlapOver
    /\ txns = <<PlainPayment, TxnArgCall>>
    /\ atc.status = "BUILT"
    /\ GroupLabels = WantedGroupLabels(1)
    /\ \E c, d \in Builders :
          /\ builds.err[c] = NoError /\ builds.group[c] = Group
          /\ builds.err[d].kind = "NotBuilding"

\* execute() has handed the group to sendAtomicTransactionComposer with a wait
\* budget it computed itself
BudgetComputed == last.op = "execute" /\ last.submitted /\ last.budget = Undef

\* the first intent is a payment that takes its first valid round from the
\* parameter source, so that the first member of the group carries the round
\* the source reported when the group was built
FirstMemberDatesTheBuild ==
    /\ txns # <<>>
    /\ txns[1].type = "pay"
    /\ ~Truthy(txns[1].firstValidRound)
    /\ Group # <<>>

\* the first valid round the parameter source reported when the group was built
BuiltAtRound == Group[1].txn.firstRound

\* C29: the wait budget execute() computes when none is given is at least 1 and
\* at least the greatest last valid round of the group less the first valid
\* round reported when the group was built, plus one.
C29_BudgetCoversWindow ==
    (BudgetComputed /\ FirstMemberDatesTheBuild) =>
        /\ last.waitRounds >= 1
        /\ last.waitRounds >= MaxLastRound(Group, 1, 0) - BuiltAtRound + 1

\* C29 witness: a payment valid in round 0 only was built in round 0 and is
\* executed in round 1, with a computed budget of no rounds
C29_Witness ==
    /\ BudgetComputed
    /\ txns = <<ZeroRoundPayment>>
    /\ BuiltAtRound = 0
    /\ network.firstRound = 1
    /\ MaxLastRound(Group, 1, 0) = 0
    /\ last.waitRounds = 0

\* the number of members the intents before the i-th ask for
RECURSIVE Offset(_)
Offset(i) == IF i <= 1 THEN 0 ELSE Offset(i - 1) + Len(WantedLabels(txns[i - 1]))

\* the j-th transaction of the sub-group sub is the member at off + j, linked
\* to the new group and with the signer it had
SubMemberKept(sub, off, j) ==
    /\ off + j <= Len(Group)
    /\ Group[off + j].txn = [sub.transactions[j].txn EXCEPT !.group = Group[off + j].txn.group]
    /\ Group[off + j].signer = sub.transactions[j].signer

\* C30: when build() has resolved the intents and returned, the transactions of
\* every sub-group added with addAtc are members of the group at the place of
\* the addAtc intent, in their order and with their signers, and the group's
\* index -> method map holds every method registered in the sub-group at the
\* index of its transaction in the group.
C30_SubGroupKept ==
    (Resolving /\ Returned) =>
        \A i \in 1..Len(txns) :
            txns[i].type = "atc" =>
                /\ \A j \in 1..Len(txns[i].atc.transactions) :
                      SubMemberKept(txns[i].atc, Offset(i), j)
                /\ \A p \in txns[i].atc.methodCalls :
                      MapGet(atc.methodCalls, Offset(i) + p[1]) = p[2]

\* C30 witness: the sub-group of two registered calls has been built into a
\* group of its two transactions, which reports the method of the second only
C30_Witness ==
    /\ Resolving /\ Returned
    /\ txns = <<TwoCallAtc>>
    /\ SubMemberKept(TwoCallAtc.atc, 0, 1)
    /\ SubMemberKept(TwoCallAtc.atc, 0, 2)
    /\ atc.methodCalls = {<<2, "doMath">>}

====
